---- MODULE Spec2Model ----
(***************************************************************************)
(* Personal expense tracker: the persisted records (entries, budgets,      *)
(* last-budget-month marker, streak, achievements) and the operations of   *)
(* services/budget.ts, services/gamification.ts, services/storage.ts and   *)
(* pages/AddEntry.tsx that read and write them.                            *)
(*                                                                         *)
(* The wall clock is a day ordinal `today`.  A calendar month has          *)
(* DaysInMonth days and a year has 12 months, so Date.getMonth() and       *)
(* Date.getFullYear() are functions of the ordinal.  An ISO date string    *)
(* 'YYYY-MM-DD' is only ever compared for equality by the code modelled    *)
(* here and is represented by its day ordinal; the empty string is NoDate. *)
(* `today` is the date toISOString() renders for the clock, and            *)
(* getYesterday() the date before it.                                      *)
(***************************************************************************)
EXTENDS Integers, Sequences, FiniteSets, TLC

VARIABLES today, entries, nextId, streak, achievements,
          budgets, budgetMonth, lastCall, ret, passes, form, arg, corrupt

vars == <<today, entries, nextId, streak, achievements,
          budgets, budgetMonth, lastCall, ret, passes, form, arg, corrupt>>

----------------------------------------------------------------------------
(* Bounds of the model *)

DaysInMonth == 2
MaxMonths == 2
MaxDays == 8
MaxGameDays == 2
MaxGameTotal == 3
MaxGameEntries == 1
MaxEntries == 2
MaxFormEntries == 1
MaxStored == 2
MaxTierEntries == 2
MaxHistory == 2
MaxWindow == 3
MaxCalendarDays == 730
MaxTotal == 9
MaxStreakDays == 91
MaxMissedDays == 1

\* the clock starts in December, so the first month change is a year change
StartDay == 11 * DaysInMonth
Categories == {"FoodGroceries", "Shopping"}
\* budget amounts (the budget code only copies and stores them)
Amounts == {1, 2}

----------------------------------------------------------------------------
(* Clock *)

getMonth(day) == (day \div DaysInMonth) % 12
getFullYear(day) == day \div (12 * DaysInMonth)

NULL == [month |-> -1, year |-> -1]

\* The last operation called: its name, its string and numeric arguments, and
\* a flag (getBudgets: the carry-forward ran; setBudget/removeBudget: the key
\* had a row; unlockAchievement: the value returned; handleSave: it saved)
Call(name, cat, num, ok) == [name |-> name, cat |-> cat, num |-> num, ok |-> ok]

\* the entry form when it is not mounted
ClosedForm == [open |-> FALSE, showSuccess |-> FALSE, amount |-> "",
               type |-> "expense", categoryGroup |-> "",
               category |-> "FoodGroceries", date |-> -1, editId |-> 0]

----------------------------------------------------------------------------
(* services/budget.ts *)

RECURSIVE SelectSeq2(_, _, _)
\* Array.prototype.filter on budget rows: keep the rows of (month, year)
SelectSeq2(s, month, year) ==
    IF s = << >> THEN << >>
    ELSE (IF Head(s).month = month /\ Head(s).year = year
            THEN <<Head(s)>> ELSE << >>) \o SelectSeq2(Tail(s), month, year)

\* updateLastBudgetMonth: the marker written for the wall clock `now`
updateLastBudgetMonth(now) == [month |-> getMonth(now), year |-> getFullYear(now)]

\* faulty variant: the rollover forgets to advance the marker
checkAndResetMonthlyBudgets_keepMarker(bs, last, now) ==
    IF last = NULL THEN [budgets |-> bs, month |-> last, rolled |-> FALSE]
    ELSE IF last.month # getMonth(now) \/ last.year # getFullYear(now)
    THEN LET lastMonthBudgets == SelectSeq2(bs, last.month, last.year)
             newBudgets == [i \in 1..Len(lastMonthBudgets) |->
                               [category |-> lastMonthBudgets[i].category,
                                amount |-> lastMonthBudgets[i].amount,
                                month |-> getMonth(now),
                                year |-> getFullYear(now)]]
         IN [budgets |-> bs \o newBudgets, month |-> last, rolled |-> TRUE]
    ELSE [budgets |-> bs, month |-> last, rolled |-> FALSE]

\* faulty variant: the rollover replaces the store by the new month's rows
checkAndResetMonthlyBudgets_dropOld(bs, last, now) ==
    IF last = NULL THEN [budgets |-> bs, month |-> last, rolled |-> FALSE]
    ELSE IF last.month # getMonth(now) \/ last.year # getFullYear(now)
    THEN LET lastMonthBudgets == SelectSeq2(bs, last.month, last.year)
             newBudgets == [i \in 1..Len(lastMonthBudgets) |->
                               [category |-> lastMonthBudgets[i].category,
                                amount |-> lastMonthBudgets[i].amount,
                                month |-> getMonth(now),
                                year |-> getFullYear(now)]]
         IN [budgets |-> newBudgets, month |-> updateLastBudgetMonth(now),
             rolled |-> TRUE]
    ELSE [budgets |-> bs, month |-> last, rolled |-> FALSE]

\* checkAndResetMonthlyBudgets: the store and the marker after the pass
\* (rolled: whether the carry-forward branch was taken)
checkAndResetMonthlyBudgets(bs, last, now) ==
    IF last = NULL THEN [budgets |-> bs, month |-> last, rolled |-> FALSE]
    ELSE IF last.month # getMonth(now) \/ last.year # getFullYear(now)
    THEN LET lastMonthBudgets == SelectSeq2(bs, last.month, last.year)
             newBudgets == [i \in 1..Len(lastMonthBudgets) |->
                               [category |-> lastMonthBudgets[i].category,
                                amount |-> lastMonthBudgets[i].amount,
                                month |-> getMonth(now),
                                year |-> getFullYear(now)]]
         IN [budgets |-> bs \o newBudgets, month |-> updateLastBudgetMonth(now),
             rolled |-> TRUE]
    ELSE [budgets |-> bs, month |-> last, rolled |-> FALSE]

\* findIndex of the row of (category, month, year); 0 when there is none
findIndex(bs, category, month, year) ==
    LET hits == {i \in 1..Len(bs) : bs[i].category = category
                                    /\ bs[i].month = month /\ bs[i].year = year}
    IN IF hits = {} THEN 0 ELSE CHOOSE i \in hits : \A j \in hits : i <= j

RECURSIVE RemoveKey(_, _, _, _)
\* the filter of removeBudget: drop every row of (category, month, year)
RemoveKey(s, category, month, year) ==
    IF s = << >> THEN << >>
    ELSE (IF Head(s).category = category /\ Head(s).month = month
             /\ Head(s).year = year
            THEN << >> ELSE <<Head(s)>>)
         \o RemoveKey(Tail(s), category, month, year)

\* faulty variant: setBudget always pushes a row
setBudgetRows_push(bs, category, amount, now) ==
    Append(bs, [category |-> category, amount |-> amount,
                month |-> getMonth(now), year |-> getFullYear(now)])

\* the list setBudget saves, given the list getBudgets returned
setBudgetRows(bs, category, amount, now) ==
    LET existing == findIndex(bs, category, getMonth(now), getFullYear(now))
    IN IF existing # 0
       THEN [bs EXCEPT ![existing].amount = amount]
       ELSE Append(bs, [category |-> category, amount |-> amount,
                        month |-> getMonth(now), year |-> getFullYear(now)])

\* the storage keys whose stored text is not JSON
StorageKeys == {"entries", "budgets", "budgetMonth", "streak", "achievements"}

\* a call that ended in an exception has this in lastCall.cat
Raised == "SyntaxError"

\* getLastBudgetMonth: null when the marker is absent or does not parse
getLastBudgetMonth ==
    IF "budgetMonth" \in corrupt THEN NULL ELSE budgetMonth

getBudgets ==
    LET last == getLastBudgetMonth
        r == checkAndResetMonthlyBudgets(budgets, last, today)
    IN IF "budgets" \in corrupt
       THEN \* JSON.parse throws, in the pass or after it, before any write
            /\ ret' = << >>
            /\ lastCall' = Call("getBudgets", "", 0, FALSE)
            /\ UNCHANGED <<today, entries, nextId, streak, achievements,
                           budgets, budgetMonth, passes, form, arg, corrupt>>
       ELSE /\ budgets' = r.budgets
            /\ budgetMonth' = IF "budgetMonth" \in corrupt THEN budgetMonth
                              ELSE r.month
            /\ ret' = r.budgets
            /\ UNCHANGED <<form, arg, corrupt>>
            /\ passes' = passes + (IF r.rolled THEN 1 ELSE 0)
            /\ lastCall' = Call("getBudgets", "", 0, r.rolled)
            /\ UNCHANGED <<today, entries, nextId, streak, achievements>>

setBudget(category, amount) ==
    LET r == checkAndResetMonthlyBudgets(budgets, budgetMonth, today)
    IN /\ budgets' = setBudgetRows(r.budgets, category, amount, today)
       /\ budgetMonth' = updateLastBudgetMonth(today)
       /\ passes' = passes + (IF r.rolled THEN 1 ELSE 0)
       /\ lastCall' = Call("setBudget", category, amount,
                           findIndex(r.budgets, category, getMonth(today),
                                     getFullYear(today)) # 0)
       /\ ret' = << >>
       /\ UNCHANGED <<form, arg, corrupt>>
       /\ UNCHANGED <<today, entries, nextId, streak, achievements>>

removeBudget(category) ==
    LET r == checkAndResetMonthlyBudgets(budgets, budgetMonth, today)
    IN /\ budgets' = RemoveKey(r.budgets, category,
                               getMonth(today), getFullYear(today))
       /\ budgetMonth' = r.month
       /\ passes' = passes + (IF r.rolled THEN 1 ELSE 0)
       /\ lastCall' = Call("removeBudget", category, 0,
                           findIndex(r.budgets, category, getMonth(today),
                                     getFullYear(today)) # 0)
       /\ ret' = << >>
       /\ UNCHANGED <<form, arg, corrupt>>
       /\ UNCHANGED <<today, entries, nextId, streak, achievements>>

----------------------------------------------------------------------------
(* services/gamification.ts: streak *)

NoDate == -1
WeekWarriorDays == 7
MonthMasterDays == 30
ConsistentTrackerDays == 90

Max(a, b) == IF a >= b THEN a ELSE b
Range(s) == {s[i] : i \in 1..Len(s)}

\* getYesterday: the date one day before the wall clock
getYesterday(now) == now - 1

\* faulty variant: an entry dated today or yesterday always increments the streak
updateStreakData_alwaysIncrement(s, entryDate, now) ==
    IF entryDate = now \/ entryDate = getYesterday(now)
    THEN LET cur == s.currentStreak + 1
         IN [currentStreak |-> cur,
             longestStreak |-> Max(s.longestStreak, cur),
             lastEntryDate |-> now,
             totalDaysWithEntries |-> s.totalDaysWithEntries + 1]
    ELSE s

\* faulty variant: an old entry still stamps lastEntryDate
updateStreakData_stampOld(s, entryDate, now) ==
    IF entryDate = now \/ entryDate = getYesterday(now)
    THEN LET cur == IF s.lastEntryDate = getYesterday(now)
                       \/ s.lastEntryDate = NoDate
                    THEN s.currentStreak + 1
                    ELSE IF s.lastEntryDate # now THEN 1
                    ELSE s.currentStreak
         IN [currentStreak |-> cur,
             longestStreak |-> Max(s.longestStreak, cur),
             lastEntryDate |-> now,
             totalDaysWithEntries |-> s.totalDaysWithEntries + 1]
    ELSE [s EXCEPT !.lastEntryDate = now]

\* faulty variant: longestStreak is overwritten by currentStreak
updateStreakData_longestIsCurrent(s, entryDate, now) ==
    IF entryDate = now \/ entryDate = getYesterday(now)
    THEN LET cur == IF s.lastEntryDate = getYesterday(now)
                       \/ s.lastEntryDate = NoDate
                    THEN s.currentStreak + 1
                    ELSE IF s.lastEntryDate # now THEN 1
                    ELSE s.currentStreak
         IN [currentStreak |-> cur,
             longestStreak |-> cur,
             lastEntryDate |-> now,
             totalDaysWithEntries |-> s.totalDaysWithEntries + 1]
    ELSE s

\* the record updateStreak stores (and returns) for an entry dated entryDate
updateStreakData(s, entryDate, now) ==
    IF entryDate = now \/ entryDate = getYesterday(now)
    THEN LET cur == IF s.lastEntryDate = getYesterday(now)
                       \/ s.lastEntryDate = NoDate
                    THEN s.currentStreak + 1
                    ELSE IF s.lastEntryDate # now THEN 1
                    ELSE s.currentStreak
         IN [currentStreak |-> cur,
             longestStreak |-> Max(s.longestStreak, cur),
             lastEntryDate |-> now,
             totalDaysWithEntries |-> s.totalDaysWithEntries + 1]
    ELSE s

\* faulty variant: validateStreak resets the streak unless the last entry is today
validateStreakData_todayOnly(s, now) ==
    IF s.lastEntryDate # now
    THEN [s EXCEPT !.currentStreak = 0]
    ELSE s

\* the record after validateStreak
validateStreakData(s, now) ==
    IF s.lastEntryDate # now /\ s.lastEntryDate # getYesterday(now)
    THEN [s EXCEPT !.currentStreak = 0]
    ELSE s

----------------------------------------------------------------------------
(* services/gamification.ts: achievements *)

ACHIEVEMENT_DEFINITIONS ==
    <<"first_entry", "week_warrior", "month_master", "consistent_tracker",
      "saver", "budget_master">>

\* faulty variant: unlockAchievement appends without looking at the stored list
unlockAchievementList_noCheck(unlocked, achievementId) ==
    [list |-> Append(unlocked, achievementId), result |-> TRUE]

\* unlockAchievement: the stored list afterwards and the value returned
unlockAchievementList(unlocked, achievementId) ==
    IF achievementId \notin Range(ACHIEVEMENT_DEFINITIONS)
       \/ achievementId \in Range(unlocked)
    THEN [list |-> unlocked, result |-> FALSE]
    ELSE [list |-> Append(unlocked, achievementId), result |-> TRUE]

\* faulty variant: month_master is unlocked only past its threshold
checkStreakAchievements_pastThirty(unlocked, es, currentStreak) ==
    LET u1 == IF Len(es) = 1
              THEN unlockAchievementList(unlocked, "first_entry").list
              ELSE unlocked
        u2 == IF currentStreak >= WeekWarriorDays
              THEN unlockAchievementList(u1, "week_warrior").list ELSE u1
        u3 == IF currentStreak > MonthMasterDays
              THEN unlockAchievementList(u2, "month_master").list ELSE u2
        u4 == IF currentStreak >= ConsistentTrackerDays
              THEN unlockAchievementList(u3, "consistent_tracker").list ELSE u3
    IN u4

\* checkStreakAchievements: the stored list after its unlockAchievement calls
checkStreakAchievements(unlocked, es, currentStreak) ==
    LET u1 == IF Len(es) = 1
              THEN unlockAchievementList(unlocked, "first_entry").list
              ELSE unlocked
        u2 == IF currentStreak >= WeekWarriorDays
              THEN unlockAchievementList(u1, "week_warrior").list ELSE u1
        u3 == IF currentStreak >= MonthMasterDays
              THEN unlockAchievementList(u2, "month_master").list ELSE u2
        u4 == IF currentStreak >= ConsistentTrackerDays
              THEN unlockAchievementList(u3, "consistent_tracker").list ELSE u3
    IN u4

\* the stored achievements after updateStreak(entryDate) with entry store es
updateStreakAchievements(unlocked, es, s, entryDate, now) ==
    IF entryDate = now \/ entryDate = getYesterday(now)
    THEN checkStreakAchievements(unlocked, es,
                                 updateStreakData(s, entryDate, now).currentStreak)
    ELSE unlocked

updateStreak(entryDate) ==
    /\ streak' = updateStreakData(streak, entryDate, today)
    /\ achievements' = updateStreakAchievements(achievements, entries, streak,
                                                entryDate, today)
    /\ lastCall' = Call("updateStreak", "", entryDate,
                        entryDate = today \/ entryDate = getYesterday(today))
    /\ ret' = << >>
    /\ UNCHANGED <<form, arg, corrupt>>
    /\ UNCHANGED <<today, entries, nextId, budgets, budgetMonth, passes>>

\* getStreakData: JSON.parse of the stored record, outside any try
getStreakData ==
    /\ ret' = IF "streak" \in corrupt THEN << >> ELSE streak
    /\ lastCall' = Call("getStreakData",
                        IF "streak" \in corrupt THEN Raised ELSE "", 0, FALSE)
    /\ UNCHANGED <<today, entries, nextId, streak, achievements, budgets,
                   budgetMonth, passes, form, arg, corrupt>>

\* getAchievements: JSON.parse of the stored id list, outside any try; ret is
\* the list of the ids whose isUnlocked is set
getAchievements ==
    /\ ret' = IF "achievements" \in corrupt THEN << >> ELSE achievements
    /\ lastCall' = Call("getAchievements",
                        IF "achievements" \in corrupt THEN Raised ELSE "",
                        0, FALSE)
    /\ UNCHANGED <<today, entries, nextId, streak, achievements, budgets,
                   budgetMonth, passes, form, arg, corrupt>>

validateStreak ==
    /\ streak' = validateStreakData(streak, today)
    /\ lastCall' = Call("validateStreak", "", 0,
                        streak.lastEntryDate # today
                        /\ streak.lastEntryDate # getYesterday(today))
    /\ ret' = << >>
    /\ UNCHANGED <<form, arg, corrupt>>
    /\ UNCHANGED <<today, entries, nextId, achievements, budgets, budgetMonth,
                   passes>>

unlockAchievement(achievementId) ==
    LET r == unlockAchievementList(achievements, achievementId)
    IN /\ achievements' = r.list
       /\ lastCall' = Call("unlockAchievement", achievementId, 0, r.result)
       /\ ret' = << >>
       /\ UNCHANGED <<form, arg, corrupt>>
       /\ UNCHANGED <<today, entries, nextId, streak, budgets, budgetMonth,
                      passes>>

----------------------------------------------------------------------------
(* services/storage.ts and pages/AddEntry.tsx *)

\* addEntry: the entry list with the new entry pushed (id from generateId,
\* createdAt from the clock)
addEntry(es, entryData, id, now) ==
    Append(es, [id |-> id,
                amount |-> entryData.amount,
                type |-> entryData.type,
                category |-> entryData.category,
                categoryGroup |-> entryData.categoryGroup,
                priority |-> entryData.priority,
                date |-> entryData.date,
                createdAt |-> now])

\* findIndex of the entry with the given id; 0 when there is none
findEntryIndex(es, id) ==
    LET hits == {i \in 1..Len(es) : es[i].id = id}
    IN IF hits = {} THEN 0 ELSE CHOOSE i \in hits : \A j \in hits : i <= j

\* getEntries: JSON.parse inside try, [] from the catch
getEntries ==
    /\ ret' = IF "entries" \in corrupt THEN << >> ELSE entries
    /\ lastCall' = Call("getEntries", "", 0, FALSE)
    /\ UNCHANGED <<today, entries, nextId, streak, achievements, budgets,
                   budgetMonth, passes, form, arg, corrupt>>

\* the stored text of a key is overwritten by something that is not JSON
corruptStorage(key) ==
    /\ key \notin corrupt
    /\ corrupt' = corrupt \cup {key}
    /\ lastCall' = Call("corruptStorage", key, 0, FALSE)
    /\ ret' = << >>
    /\ UNCHANGED <<today, entries, nextId, streak, achievements, budgets,
                   budgetMonth, passes, form, arg>>

\* the object spread {...entry, ...updates}: updates is a record of the
\* fields given
Spread(entry, updates) ==
    [f \in (DOMAIN entry) \cup (DOMAIN updates) |->
        IF f \in DOMAIN updates THEN updates[f] ELSE entry[f]]

\* faulty variant: the updated entry is removed and pushed at the end
updateEntry_moveToEnd(es, id, updates) ==
    LET index == findEntryIndex(es, id)
    IN IF index = 0 THEN es
       ELSE SubSeq(es, 1, index - 1) \o SubSeq(es, index + 1, Len(es))
            \o <<Spread(es[index], updates)>>

\* updateEntry: the entry list with the updates spread over the entry of id
\* (unchanged when no entry has the id, where updateEntry returns null)
updateEntry(es, id, updates) ==
    LET index == findEntryIndex(es, id)
    IN IF index = 0 THEN es
       ELSE [es EXCEPT ![index] = Spread(es[index], updates)]

\* updateEntry called directly; ret is the entry returned, << >> for null
callUpdateEntry(id, updates) ==
    LET index == findEntryIndex(entries, id)
    IN /\ entries' = updateEntry(entries, id, updates)
       /\ ret' = IF index = 0 THEN << >> ELSE entries'[index]
       /\ arg' = updates
       /\ lastCall' = Call("updateEntry", "", id, index # 0)
       /\ UNCHANGED <<today, nextId, streak, achievements, budgets,
                      budgetMonth, passes, form, corrupt>>

\* what getEntries returns to the functions of storage.ts that call it
storedEntries == IF "entries" \in corrupt THEN << >> ELSE entries

RECURSIVE sortByCreatedAt(_)
\* Array.prototype.sort((a, b) => b.createdAt - a.createdAt): newest first,
\* entries of equal createdAt keep their order
sortByCreatedAt(es) ==
    IF es = << >> THEN << >>
    ELSE LET rest == sortByCreatedAt(Tail(es))
             before == SelectSeq(rest, LAMBDA e : e.createdAt > Head(es).createdAt)
             after == SelectSeq(rest, LAMBDA e : e.createdAt <= Head(es).createdAt)
         IN before \o <<Head(es)>> \o after

\* getEntriesByMonth: the entries dated in (year, month), newest first
getEntriesByMonth(es, year, month) ==
    sortByCreatedAt(SelectSeq(es, LAMBDA e :
        e.date # -1 /\ getFullYear(e.date) = year /\ getMonth(e.date) = month))

RECURSIVE sumAmounts(_)
\* the running total of forEach / reduce over entry.amount
sumAmounts(es) ==
    IF es = << >> THEN 0 ELSE Head(es).amount + sumAmounts(Tail(es))

\* entry.categoryGroup || entry.priority ("" is an absent field)
entryGroup(entry) ==
    IF entry.categoryGroup # "" THEN entry.categoryGroup ELSE entry.priority

\* faulty variant: the balance leaves the savings out
getMonthlyData_noSavings(es, year, month) ==
    LET list == getEntriesByMonth(es, year, month)
        expenses == SelectSeq(list, LAMBDA e : e.type # "income")
        totalIncome == sumAmounts(SelectSeq(list, LAMBDA e : e.type = "income"))
        totalNeeds == sumAmounts(SelectSeq(expenses,
                          LAMBDA e : entryGroup(e) \in {"needs", "need"}))
        totalLifestyle == sumAmounts(SelectSeq(expenses,
                          LAMBDA e : entryGroup(e) \in {"lifestyle", "want"}))
        totalSavings == sumAmounts(SelectSeq(expenses,
                          LAMBDA e : entryGroup(e) = "savings"))
    IN [totalIncome |-> totalIncome, totalNeeds |-> totalNeeds,
        totalLifestyle |-> totalLifestyle, totalSavings |-> totalSavings,
        totalWants |-> totalLifestyle,
        balance |-> totalIncome - totalNeeds - totalLifestyle]

\* getMonthlyData: the totals of the month's entries
getMonthlyData(es, year, month) ==
    LET list == getEntriesByMonth(es, year, month)
        expenses == SelectSeq(list, LAMBDA e : e.type # "income")
        totalIncome == sumAmounts(SelectSeq(list, LAMBDA e : e.type = "income"))
        totalNeeds == sumAmounts(SelectSeq(expenses,
                          LAMBDA e : entryGroup(e) \in {"needs", "need"}))
        totalLifestyle == sumAmounts(SelectSeq(expenses,
                          LAMBDA e : entryGroup(e) \in {"lifestyle", "want"}))
        totalSavings == sumAmounts(SelectSeq(expenses,
                          LAMBDA e : entryGroup(e) = "savings"))
    IN [totalIncome |-> totalIncome, totalNeeds |-> totalNeeds,
        totalLifestyle |-> totalLifestyle, totalSavings |-> totalSavings,
        totalWants |-> totalLifestyle,
        balance |-> totalIncome - totalNeeds - totalLifestyle - totalSavings]

\* faulty variant: the month's sorted list is saved back as the entry store
callGetMonthlyData_savesSorted(year, month) ==
    /\ ret' = getMonthlyData(storedEntries, year, month)
    /\ arg' = [year |-> year, month |-> month]
    /\ lastCall' = Call("getMonthlyData", "", 12 * year + month, TRUE)
    /\ entries' = getEntriesByMonth(storedEntries, year, month)
    /\ UNCHANGED <<today, nextId, streak, achievements, budgets,
                   budgetMonth, passes, form, corrupt>>

\* getMonthlyData called for (year, month); ret is the MonthlyData returned
callGetMonthlyData(year, month) ==
    /\ ret' = getMonthlyData(storedEntries, year, month)
    /\ arg' = [year |-> year, month |-> month]
    /\ lastCall' = Call("getMonthlyData", "", 12 * year + month, TRUE)
    /\ UNCHANGED <<today, entries, nextId, streak, achievements, budgets,
                   budgetMonth, passes, form, corrupt>>

RECURSIVE RemoveId(_, _)
\* the filter of deleteEntry: drop every entry of the given id
RemoveId(es, id) ==
    IF es = << >> THEN << >>
    ELSE (IF Head(es).id = id THEN << >> ELSE <<Head(es)>>)
         \o RemoveId(Tail(es), id)

deleteEntry(id) ==
    /\ entries' = RemoveId(entries, id)
    /\ lastCall' = Call("deleteEntry", "", id, Len(RemoveId(entries, id)) # Len(entries))
    /\ ret' = << >>
    /\ UNCHANGED <<form, arg, corrupt>>
    /\ UNCHANGED <<today, nextId, streak, achievements, budgets, budgetMonth,
                   passes>>

\* the entryData object handleSave builds from the form state
entryDataOf(amount, type, categoryGroup, category, date) ==
    LET selectedCategoryGroup == IF type = "income" THEN "needs" ELSE categoryGroup
    IN [amount |-> amount,
        type |-> type,
        category |-> category,
        categoryGroup |-> selectedCategoryGroup,
        priority |-> IF selectedCategoryGroup = "needs" THEN "needs"
                     ELSE IF selectedCategoryGroup = "lifestyle" THEN "lifestyle"
                     ELSE "savings",
        date |-> date]

\* faulty variant: the amount is not validated
handleSaveRejects_groupOnly(amount, type, categoryGroup) ==
    type = "expense" /\ categoryGroup = ""

\* faulty variant: the category group is not validated
handleSaveRejects_amountOnly(amount, type, categoryGroup) ==
    amount <= 0

\* the two validation returns at the head of handleSave
handleSaveRejects(amount, type, categoryGroup) ==
    amount <= 0 \/ (type = "expense" /\ categoryGroup = "")

\* handleSave of the entry form.  amount is the parsed amount (0 stands for
\* every falsy parse: NaN and 0), categoryGroup "" is the null group,
\* editId 0 is a form opened without editEntry.
handleSaveEffects(amount, type, categoryGroup, category, date, editId) ==
    LET entryData == entryDataOf(amount, type, categoryGroup, category, date)
        rejected == handleSaveRejects(amount, type, categoryGroup)
        added == addEntry(entries, entryData, nextId, today)
    IN /\ lastCall' = Call("handleSave", IF editId # 0 THEN "edit" ELSE "add",
                           date, ~rejected)
       /\ ret' = << >>
       /\ IF rejected
          THEN UNCHANGED <<entries, nextId, streak, achievements>>
          ELSE IF editId # 0
          THEN /\ entries' = updateEntry(entries, editId, entryData)
               /\ UNCHANGED <<nextId, streak, achievements>>
          ELSE /\ nextId <= MaxEntries
               /\ streak.totalDaysWithEntries < MaxTotal
               /\ entries' = added
               /\ nextId' = nextId + 1
               /\ streak' = updateStreakData(streak, date, today)
               /\ achievements' = updateStreakAchievements(achievements, added,
                                                           streak, date, today)
       /\ UNCHANGED <<today, budgets, budgetMonth, passes>>

\* handleSave called with the given form state (the form itself not modelled)
handleSave(amount, type, categoryGroup, category, date, editId) ==
    /\ handleSaveEffects(amount, type, categoryGroup, category, date, editId)
    /\ UNCHANGED <<form, arg, corrupt>>

----------------------------------------------------------------------------
(* pages/AddEntry.tsx: the form state and its controls *)

NEEDS_CATEGORIES ==
    <<"FoodGroceries", "Meals", "Transport", "Fuel", "RentUtilities",
      "Education", "HealthHygiene">>
LIFESTYLE_CATEGORIES ==
    <<"EatingOut", "Entertainment", "Shopping", "TravelTrips", "Hobbies",
      "Gifts">>
SAVINGS_CATEGORIES == <<"EmergencyFund", "Gadgets", "FutureGoals">>
ALL_CATEGORIES == NEEDS_CATEGORIES \o LIFESTYLE_CATEGORIES \o SAVINGS_CATEGORIES

CATEGORY_TO_GROUP ==
    [c \in Range(ALL_CATEGORIES) |->
        IF c \in Range(NEEDS_CATEGORIES) THEN "needs"
        ELSE IF c \in Range(LIFESTYLE_CATEGORIES) THEN "lifestyle"
        ELSE "savings"]

getCategoriesForGroup(group) ==
    IF group = "needs" THEN NEEDS_CATEGORIES
    ELSE IF group = "lifestyle" THEN LIFESTYLE_CATEGORIES
    ELSE SAVINGS_CATEGORIES

\* the texts the amount input takes in the model
AmountTexts == {"", "0", "-1", "1", "2"}

\* parseFloat of an amount text, as handleSave tests it: NaN is falsy like 0
parseFloat(text) ==
    IF text = "1" THEN 1
    ELSE IF text = "2" THEN 2
    ELSE IF text = "-1" THEN -1
    ELSE 0

\* Number.prototype.toString of a stored amount
toString(n) ==
    IF n = 1 THEN "1" ELSE IF n = 2 THEN "2" ELSE IF n = -1 THEN "-1" ELSE "0"

FormStep(name) ==
    /\ lastCall' = Call(name, "", 0, FALSE)
    /\ ret' = << >>
    /\ UNCHANGED <<today, entries, nextId, streak, achievements, budgets,
                   budgetMonth, passes, arg, corrupt>>

\* App.handleAddEntry mounts the form with its initial state
handleAddEntry ==
    /\ ~form.open
    /\ form' = [open |-> TRUE, showSuccess |-> FALSE, amount |-> "",
                type |-> "expense", categoryGroup |-> "",
                category |-> "FoodGroceries", date |-> today, editId |-> 0]
    /\ FormStep("handleAddEntry")

\* App.handleEditEntry mounts the form on a stored entry
handleEditEntry(i) ==
    /\ ~form.open
    /\ i \in 1..Len(entries)
    /\ form' = [open |-> TRUE, showSuccess |-> FALSE,
                amount |-> toString(entries[i].amount),
                type |-> entries[i].type,
                categoryGroup |-> IF entries[i].categoryGroup # ""
                                  THEN entries[i].categoryGroup
                                  ELSE CATEGORY_TO_GROUP[entries[i].category],
                category |-> entries[i].category,
                date |-> entries[i].date,
                editId |-> entries[i].id]
    /\ FormStep("handleEditEntry")

FormShown == form.open /\ ~form.showSuccess

setAmount(text) ==
    /\ FormShown
    /\ form' = [form EXCEPT !.amount = text]
    /\ FormStep("setAmount")

setType(type) ==
    /\ FormShown
    /\ form' = [form EXCEPT !.type = type]
    /\ FormStep("setType")

\* a group card: shown for an expense with no group selected
setCategoryGroup(group) ==
    /\ FormShown
    /\ form.type = "expense" /\ form.categoryGroup = ""
    /\ form' = [form EXCEPT !.categoryGroup = group]
    /\ FormStep("setCategoryGroup")

\* the Change button: shown for an expense with a group selected
changeCategoryGroup ==
    /\ FormShown
    /\ form.type = "expense" /\ form.categoryGroup # ""
    /\ form' = [form EXCEPT !.categoryGroup = ""]
    /\ FormStep("changeCategoryGroup")

\* a category button: the grid shows the categories of the selected group
setCategory(category) ==
    /\ FormShown
    /\ form.type = "expense" /\ form.categoryGroup # ""
    /\ category \in Range(getCategoriesForGroup(form.categoryGroup))
    /\ form' = [form EXCEPT !.category = category]
    /\ FormStep("setCategory")

setDate(date) ==
    /\ FormShown
    /\ form' = [form EXCEPT !.date = date]
    /\ FormStep("setDate")

\* the Save button: handleSave on the form state, then the success screen
handleSaveClick ==
    /\ FormShown
    /\ handleSaveEffects(parseFloat(form.amount), form.type,
                         form.categoryGroup, form.category, form.date,
                         form.editId)
    /\ form' = IF handleSaveRejects(parseFloat(form.amount), form.type,
                                    form.categoryGroup)
               THEN form ELSE [form EXCEPT !.showSuccess = TRUE]
    /\ UNCHANGED <<arg, corrupt>>

\* App.handleCloseEntry unmounts the form (close button, or the timer of the
\* success screen)
handleCloseEntry ==
    /\ form.open
    /\ form' = ClosedForm
    /\ FormStep("handleCloseEntry")

----------------------------------------------------------------------------
(* services/budget.ts: budget status; pages/Insights.tsx: the budget modal *)

\* faulty variant: the first row of the category, whatever its month
getBudgetForCategory_anyMonth(bs, category, now) ==
    LET hits == {i \in 1..Len(bs) : bs[i].category = category}
    IN IF hits = {} THEN 0
       ELSE bs[CHOOSE i \in hits : \A j \in hits : i <= j].amount

\* getBudgetForCategory: budget?.amount || 0 of the first row of
\* (category, this month, this year)
getBudgetForCategory(bs, category, now) ==
    LET index == findIndex(bs, category, getMonth(now), getFullYear(now))
    IN IF index = 0 THEN 0 ELSE bs[index].amount

\* getCategorySpending: the month's expenses of the category
getCategorySpending(es, category, year, month) ==
    sumAmounts(SelectSeq(getEntriesByMonth(es, year, month),
                         LAMBDA e : e.type = "expense" /\ e.category = category))

\* the value of getBudgetStatus that is not a status row
NoStatus == [category |-> "", budgetAmount |-> 0, spentAmount |-> 0,
             remainingAmount |-> 0, status |-> ""]

\* faulty variant: red only above 90
getBudgetStatus_above90(bs, es, category, now) ==
    LET budgetAmount == getBudgetForCategory(bs, category, now)
        spentAmount == getCategorySpending(es, category, getFullYear(now),
                                           getMonth(now))
    IN IF budgetAmount = 0 THEN NoStatus
       ELSE [category |-> category,
             budgetAmount |-> budgetAmount,
             spentAmount |-> spentAmount,
             remainingAmount |-> budgetAmount - spentAmount,
             status |-> IF spentAmount * 100 > 90 * budgetAmount THEN "red"
                        ELSE IF spentAmount * 100 >= 70 * budgetAmount
                        THEN "yellow" ELSE "green"]

\* getBudgetStatus: null without a budget amount, else the status row
\* (percentage >= 90 and >= 70 are compared without the division)
getBudgetStatus(bs, es, category, now) ==
    LET budgetAmount == getBudgetForCategory(bs, category, now)
        spentAmount == getCategorySpending(es, category, getFullYear(now),
                                           getMonth(now))
    IN IF budgetAmount = 0 THEN NoStatus
       ELSE [category |-> category,
             budgetAmount |-> budgetAmount,
             spentAmount |-> spentAmount,
             remainingAmount |-> budgetAmount - spentAmount,
             status |-> IF spentAmount * 100 >= 90 * budgetAmount THEN "red"
                        ELSE IF spentAmount * 100 >= 70 * budgetAmount
                        THEN "yellow" ELSE "green"]

\* getBudgetStatus called for a category; it reads through getBudgets, which
\* runs the carry-forward; ret is the row returned (NoStatus for null)
callGetBudgetStatus(category) ==
    LET r == checkAndResetMonthlyBudgets(budgets, getLastBudgetMonth, today)
    IN /\ "budgets" \notin corrupt
       /\ budgets' = r.budgets
       /\ budgetMonth' = IF "budgetMonth" \in corrupt THEN budgetMonth
                         ELSE r.month
       /\ passes' = passes + (IF r.rolled THEN 1 ELSE 0)
       /\ ret' = getBudgetStatus(r.budgets, storedEntries, category, today)
       /\ lastCall' = Call("getBudgetStatus", category, 0, r.rolled)
       /\ UNCHANGED <<today, entries, nextId, streak, achievements,
                      form, arg, corrupt>>

\* CATEGORIES.map(getBudgetStatus).filter(non-null)
budgetStatusRows(bs, es, now) ==
    SelectSeq([i \in 1..Len(ALL_CATEGORIES) |->
                  getBudgetStatus(bs, es, ALL_CATEGORIES[i], now)],
              LAMBDA row : row # NoStatus)

\* getAllBudgetStatuses: every getBudgetStatus reads through getBudgets, the
\* first of which runs the carry-forward
getAllBudgetStatuses ==
    LET r == checkAndResetMonthlyBudgets(budgets, getLastBudgetMonth, today)
    IN IF "budgets" \in corrupt
       THEN /\ ret' = << >>
            /\ lastCall' = Call("getAllBudgetStatuses", "", 0, FALSE)
            /\ UNCHANGED <<today, entries, nextId, streak, achievements,
                           budgets, budgetMonth, passes, form, arg, corrupt>>
       ELSE /\ budgets' = r.budgets
            /\ budgetMonth' = IF "budgetMonth" \in corrupt THEN budgetMonth
                              ELSE r.month
            /\ passes' = passes + (IF r.rolled THEN 1 ELSE 0)
            /\ ret' = budgetStatusRows(r.budgets, storedEntries, today)
            /\ lastCall' = Call("getAllBudgetStatuses", "", 0, r.rolled)
            /\ UNCHANGED <<today, entries, nextId, streak, achievements,
                           form, arg, corrupt>>

\* handleSaveBudget: Save of the budget modal for the selected category
handleSaveBudget(selectedCategory, budgetAmount) ==
    IF budgetAmount # "" /\ parseFloat(budgetAmount) > 0
    THEN setBudget(selectedCategory, parseFloat(budgetAmount))
    ELSE /\ lastCall' = Call("handleSaveBudget", selectedCategory, 0, FALSE)
         /\ ret' = << >>
         /\ UNCHANGED <<today, entries, nextId, streak, achievements,
                        budgets, budgetMonth, passes, form, arg, corrupt>>

\* handleRemoveBudget: Remove of the budget modal for the selected category
handleRemoveBudget(selectedCategory) == removeBudget(selectedCategory)

----------------------------------------------------------------------------
(* services/analytics.ts *)

\* calculateSavingsRate: Math.round((income - expenses) / income * 100), the
\* nearest integer with halves rounded up
calculateSavingsRate(income, expenses) ==
    IF income <= 0 THEN 0
    ELSE (200 * (income - expenses) + income) \div (2 * income)

\* the savings figures of getAnalyticsMetrics for the month of `now`
savingsMetrics(es, now) ==
    LET currentData == getMonthlyData(es, getFullYear(now), getMonth(now))
        totalIncome == currentData.totalIncome
        totalExpenses == currentData.totalNeeds + currentData.totalWants
    IN [totalIncome |-> totalIncome,
        totalExpenses |-> totalExpenses,
        savingsAmount |-> totalIncome - totalExpenses,
        savingsRate |-> calculateSavingsRate(totalIncome, totalExpenses)]

\* getAnalyticsMetrics: reads only; ret holds the savings figures of the
\* metrics returned
getAnalyticsMetrics ==
    /\ ret' = savingsMetrics(storedEntries, today)
    /\ lastCall' = Call("getAnalyticsMetrics", "", 0, TRUE)
    /\ UNCHANGED <<today, entries, nextId, streak, achievements, budgets,
                   budgetMonth, passes, form, arg, corrupt>>

\* getMonthDate of analytics.ts: the (year, month) monthsAgo months before
\* the clock's month (the clock's day of month exists in every month of this
\* calendar, so Date.setMonth lands in the month asked for)
getMonthDate(now, monthsAgo) ==
    LET index == 12 * getFullYear(now) + getMonth(now) - monthsAgo
    IN [year |-> index \div 12, month |-> index % 12]

\* the expenses array of getExpenseTrend: totalNeeds + totalWants of the
\* current month and the months before it, newest first
trendExpenses(es, now, months) ==
    [i \in 1..months |->
        LET d == getMonthDate(now, i - 1)
            data == getMonthlyData(es, d.year, d.month)
        IN data.totalNeeds + data.totalWants]

\* the counting loop and the two threshold tests of getExpenseTrend
expenseTrend(expenses) ==
    LET n == Len(expenses)
        risingCount ==
            Cardinality({i \in 1..(n - 1) : expenses[i] > expenses[i + 1]})
        fallingCount ==
            Cardinality({i \in 1..(n - 1) : expenses[i] < expenses[i + 1]})
    IN IF n < 2 THEN "stable"
       ELSE IF risingCount >= n \div 2 THEN "rising"
       ELSE IF fallingCount >= n \div 2 THEN "falling"
       ELSE "stable"

\* getExpenseTrend(months): reads only; ret holds the trend returned and the
\* expenses array it was computed from
getExpenseTrend(months) ==
    LET expenses == trendExpenses(storedEntries, today, months)
    IN /\ ret' = [trend |-> expenseTrend(expenses), expenses |-> expenses]
       /\ lastCall' = Call("getExpenseTrend", "", months, TRUE)
       /\ UNCHANGED <<today, entries, nextId, streak, achievements, budgets,
                      budgetMonth, passes, form, arg, corrupt>>

\* Math.round(numerator / denominator) for a positive denominator: the
\* nearest integer, halves towards plus infinity
roundRatio(numerator, denominator) ==
    (2 * numerator + denominator) \div (2 * denominator)

\* faulty variant: growth from a previous amount of zero is 0
categoryGrowthOf_zeroFromNothing(es, category, now) ==
    LET current == getMonthDate(now, 0)
        previous == getMonthDate(now, 1)
        currentAmount == getCategorySpending(es, category, current.year,
                                             current.month)
        previousAmount == getCategorySpending(es, category, previous.year,
                                              previous.month)
    IN [category |-> category,
        currentAmount |-> currentAmount,
        previousAmount |-> previousAmount,
        growthPercent |->
            IF previousAmount > 0
            THEN roundRatio(100 * (currentAmount - previousAmount),
                            previousAmount)
            ELSE 0]

\* the CategoryGrowth row calculateCategoryGrowth maps a category to
categoryGrowthOf(es, category, now) ==
    LET current == getMonthDate(now, 0)
        previous == getMonthDate(now, 1)
        currentAmount == getCategorySpending(es, category, current.year,
                                             current.month)
        previousAmount == getCategorySpending(es, category, previous.year,
                                              previous.month)
    IN [category |-> category,
        currentAmount |-> currentAmount,
        previousAmount |-> previousAmount,
        growthPercent |->
            IF previousAmount > 0
            THEN roundRatio(100 * (currentAmount - previousAmount),
                            previousAmount)
            ELSE IF currentAmount > 0 THEN 100 ELSE 0]

\* calculateCategoryGrowth: reads only; ret is the list of rows returned
calculateCategoryGrowth ==
    /\ ret' = SelectSeq([i \in 1..Len(ALL_CATEGORIES) |->
                            categoryGrowthOf(storedEntries, ALL_CATEGORIES[i],
                                             today)],
                        LAMBDA cg : cg.currentAmount > 0 \/ cg.previousAmount > 0)
    /\ arg' = << >>
    /\ lastCall' = Call("calculateCategoryGrowth", "", 0, TRUE)
    /\ UNCHANGED <<today, entries, nextId, streak, achievements, budgets,
                   budgetMonth, passes, form, corrupt>>

\* calculateExpenseGrowth
calculateExpenseGrowth(currentExpenses, previousExpenses) ==
    IF previousExpenses = 0
    THEN (IF currentExpenses > 0 THEN 100 ELSE 0)
    ELSE roundRatio(100 * (currentExpenses - previousExpenses),
                    previousExpenses)

\* metrics.expenseGrowth of getAnalyticsMetrics: this month's expenses
\* against last month's
expenseGrowthOf(es, now) ==
    LET current == getMonthDate(now, 0)
        previous == getMonthDate(now, 1)
        currentData == getMonthlyData(es, current.year, current.month)
        previousData == getMonthlyData(es, previous.year, previous.month)
    IN calculateExpenseGrowth(currentData.totalNeeds + currentData.totalWants,
                              previousData.totalNeeds + previousData.totalWants)

\* the savingsRates array of getSavingsTrend, newest month first
trendSavingsRates(es, now, months) ==
    [i \in 1..months |->
        LET d == getMonthDate(now, i - 1)
            data == getMonthlyData(es, d.year, d.month)
        IN calculateSavingsRate(data.totalIncome,
                                data.totalNeeds + data.totalWants)]

\* the counting loop and the two threshold tests of getSavingsTrend
savingsTrend(savingsRates) ==
    LET n == Len(savingsRates)
        improvingCount ==
            Cardinality({i \in 1..(n - 1) :
                            savingsRates[i] > savingsRates[i + 1]})
        decliningCount ==
            Cardinality({i \in 1..(n - 1) :
                            savingsRates[i] < savingsRates[i + 1]})
    IN IF n < 2 THEN "stable"
       ELSE IF improvingCount >= n \div 2 THEN "improving"
       ELSE IF decliningCount >= n \div 2 THEN "declining"
       ELSE "stable"

\* getWantsRatio: the share of wants in this month's expenses, in percent
wantsRatioOf(es, now) ==
    LET current == getMonthDate(now, 0)
        data == getMonthlyData(es, current.year, current.month)
        totalExpenses == data.totalNeeds + data.totalWants
    IN IF totalExpenses = 0 THEN 0
       ELSE roundRatio(100 * data.totalWants, totalExpenses)

----------------------------------------------------------------------------
(* services/financialScore.ts *)

\* getTotalBudgetSummary: the sums over the status rows, and the tier of
\* overallPercentage = totalSpent / totalBudget * 100 (with no rows the
\* totals are 0 and the tier is green, as the early return has them)
getTotalBudgetSummary(statuses) ==
    LET totalBudget == sumAmounts([i \in 1..Len(statuses) |->
                                      [amount |-> statuses[i].budgetAmount]])
        totalSpent == sumAmounts([i \in 1..Len(statuses) |->
                                     [amount |-> statuses[i].spentAmount]])
    IN [totalBudget |-> totalBudget,
        totalSpent |-> totalSpent,
        overallStatus |->
            IF totalBudget > 0 /\ 100 * totalSpent >= 90 * totalBudget
            THEN "red"
            ELSE IF totalBudget > 0 /\ 100 * totalSpent >= 70 * totalBudget
            THEN "yellow"
            ELSE "green"]

calculateSavingsScore(savingsRate) ==
    IF savingsRate <= 0 THEN 0
    ELSE IF savingsRate >= 30 THEN 100
    ELSE roundRatio(100 * savingsRate, 30)

\* faulty variant: without budgets the score is 100
calculateBudgetScore_fullWithoutBudgets(summary) ==
    IF summary.totalBudget = 0 THEN 100
    ELSE IF 100 * summary.totalSpent <= 70 * summary.totalBudget THEN 100
    ELSE IF 100 * summary.totalSpent <= 85 * summary.totalBudget THEN 80
    ELSE IF 100 * summary.totalSpent <= 100 * summary.totalBudget THEN 60
    ELSE IF 100 * summary.totalSpent <= 120 * summary.totalBudget THEN 30
    ELSE 0

\* calculateBudgetScore: overallPercentage = totalSpent / totalBudget * 100
\* is compared without the division
calculateBudgetScore(summary) ==
    IF summary.totalBudget = 0 THEN 50
    ELSE IF 100 * summary.totalSpent <= 70 * summary.totalBudget THEN 100
    ELSE IF 100 * summary.totalSpent <= 85 * summary.totalBudget THEN 80
    ELSE IF 100 * summary.totalSpent <= 100 * summary.totalBudget THEN 60
    ELSE IF 100 * summary.totalSpent <= 120 * summary.totalBudget THEN 30
    ELSE 0

calculateStabilityScore(expenseGrowth) ==
    LET growthAbs == IF expenseGrowth < 0 THEN -expenseGrowth ELSE expenseGrowth
    IN IF growthAbs <= 5 THEN 100
       ELSE IF growthAbs <= 10 THEN 85
       ELSE IF growthAbs <= 20 THEN 70
       ELSE IF growthAbs <= 30 THEN 50
       ELSE IF growthAbs <= 50 THEN 30
       ELSE 10

\* calculateConsistencyScore: the share of the last 6 months with data
calculateConsistencyScore(es, now) ==
    LET monthsWithData ==
            Cardinality({i \in 0..5 :
                LET d == getMonthDate(now, i)
                    data == getMonthlyData(es, d.year, d.month)
                IN data.totalIncome > 0 \/ data.totalNeeds > 0
                   \/ data.totalWants > 0})
    IN roundRatio(100 * monthsWithData, 6)

getRating(score) ==
    IF score >= 80 THEN "Excellent"
    ELSE IF score >= 60 THEN "Good"
    ELSE IF score >= 40 THEN "Average"
    ELSE "Poor"

\* the FinancialScore but for its explanation text; the weights 0.40, 0.30,
\* 0.20, 0.10 are taken in tenths
financialScoreOf(bs, es, now) ==
    LET savingsScore == calculateSavingsScore(savingsMetrics(es, now).savingsRate)
        budgetScore ==
            calculateBudgetScore(
                getTotalBudgetSummary(budgetStatusRows(bs, es, now)))
        stabilityScore == calculateStabilityScore(expenseGrowthOf(es, now))
        consistencyScore == calculateConsistencyScore(es, now)
        totalScore == roundRatio(4 * savingsScore + 3 * budgetScore
                                 + 2 * stabilityScore + consistencyScore, 10)
    IN [score |-> totalScore,
        rating |-> getRating(totalScore),
        breakdown |-> [savingsScore |-> savingsScore,
                       budgetScore |-> budgetScore,
                       stabilityScore |-> stabilityScore,
                       consistencyScore |-> consistencyScore]]

\* calculateFinancialScore: its budget summary reads through getBudgets,
\* which runs the carry-forward; ret is the score returned
calculateFinancialScore ==
    LET r == checkAndResetMonthlyBudgets(budgets, getLastBudgetMonth, today)
    IN /\ "budgets" \notin corrupt
       /\ budgets' = r.budgets
       /\ budgetMonth' = IF "budgetMonth" \in corrupt THEN budgetMonth
                         ELSE r.month
       /\ passes' = passes + (IF r.rolled THEN 1 ELSE 0)
       /\ ret' = financialScoreOf(r.budgets, storedEntries, today)
       /\ arg' = << >>
       /\ lastCall' = Call("calculateFinancialScore", "", 0, r.rolled)
       /\ UNCHANGED <<today, entries, nextId, streak, achievements,
                      form, corrupt>>

----------------------------------------------------------------------------
(* services/forecast.ts *)

\* getHistoricalData: income, expenses and savings of the months before the
\* clock's month, most recent first (getMonthDate is the one of analytics.ts
\* word for word)
getHistoricalData(es, now, months) ==
    [i \in 1..months |->
        LET d == getMonthDate(now, i)
            monthData == getMonthlyData(es, d.year, d.month)
            expenses == monthData.totalNeeds + monthData.totalWants
        IN [income |-> monthData.totalIncome,
            expenses |-> expenses,
            savings |-> monthData.totalIncome - expenses]]

RECURSIVE weightedTotals(_, _)
\* the forEach of calculateWeightedAverage from index on (0-based index
\* `index` is element index + 1 of the sequence)
weightedTotals(values, index) ==
    IF index >= Len(values) THEN [weightedSum |-> 0, totalWeight |-> 0]
    ELSE LET rest == weightedTotals(values, index + 1)
             weight == Len(values) - index
         IN [weightedSum |-> values[index + 1] * weight + rest.weightedSum,
             totalWeight |-> weight + rest.totalWeight]

\* faulty variant: every month weighs the same
calculateWeightedAverage_plain(values) ==
    IF Len(values) = 0 THEN 0
    ELSE roundRatio(sumAmounts([i \in 1..Len(values) |-> [amount |-> values[i]]]),
                  Len(values))

\* calculateWeightedAverage
calculateWeightedAverage(values) ==
    IF Len(values) = 0 THEN 0
    ELSE LET t == weightedTotals(values, 0)
         IN IF t.totalWeight > 0 THEN roundRatio(t.weightedSum, t.totalWeight)
            ELSE 0

\* calculateConfidence: cv = stdDev / mean of the positive values, compared
\* with 0.2 and 0.4 through cv^2 = (n * sum of squares - sum^2) / sum^2
calculateConfidence(values) ==
    LET validValues == SelectSeq(values, LAMBDA v : v > 0)
        n == Len(validValues)
        sum == sumAmounts([i \in 1..n |-> [amount |-> validValues[i]]])
        squares == sumAmounts([i \in 1..n |->
                                  [amount |-> validValues[i] * validValues[i]]])
        spread == n * squares - sum * sum
    IN IF Len(values) < 2 THEN "low"
       ELSE IF Len(values) < 4 THEN "medium"
       ELSE IF n < 2 THEN "low"
       ELSE IF 25 * spread < sum * sum THEN "high"
       ELSE IF 25 * spread < 4 * sum * sum THEN "medium"
       ELSE "low"

\* the Forecast generateForecast builds from the historical data
forecastOf(historicalData) ==
    LET validData == SelectSeq(historicalData,
                               LAMBDA d : d.income > 0 \/ d.expenses > 0)
        incomes == [i \in 1..Len(validData) |-> validData[i].income]
        expenses == [i \in 1..Len(validData) |-> validData[i].expenses]
        predictedIncome == calculateWeightedAverage(incomes)
        predictedExpenses == calculateWeightedAverage(expenses)
    IN IF Len(validData) = 0
       THEN [predictedExpenses |-> 0, predictedSavings |-> 0,
             predictedIncome |-> 0, confidence |-> "low", basedOnMonths |-> 0]
       ELSE [predictedExpenses |-> predictedExpenses,
             predictedSavings |-> predictedIncome - predictedExpenses,
             predictedIncome |-> predictedIncome,
             confidence |-> calculateConfidence(expenses),
             basedOnMonths |-> Len(validData)]

\* generateForecast(monthsToAnalyze): reads only; ret is the Forecast
generateForecast(monthsToAnalyze) ==
    /\ ret' = forecastOf(getHistoricalData(storedEntries, today,
                                           monthsToAnalyze))
    /\ arg' = << >>
    /\ lastCall' = Call("generateForecast", "", monthsToAnalyze, TRUE)
    /\ UNCHANGED <<today, entries, nextId, streak, achievements, budgets,
                   budgetMonth, passes, form, corrupt>>

\* calculateWeightedAverage applied to a list; ret holds the value returned
applyWeightedAverage(values) ==
    /\ ret' = [value |-> calculateWeightedAverage(values)]
    /\ arg' = values
    /\ lastCall' = Call("calculateWeightedAverage", "", Len(values), TRUE)
    /\ UNCHANGED <<today, entries, nextId, streak, achievements, budgets,
                   budgetMonth, passes, form, corrupt>>

\* faulty variant: each change is taken from the newer month to the older
nextMonthChangeOf_backwards(historicalData) ==
    LET totalChange ==
            sumAmounts([i \in 1..(Len(historicalData) - 1) |->
                [amount |-> historicalData[i + 1].expenses
                            - historicalData[i].expenses]])
        pairs == Len(historicalData) - 1
        currentExpenses == historicalData[1].expenses
    IN IF Len(historicalData) < 2
       THEN [expenseChange |-> 0, direction |-> "stable", percentChange |-> 0]
       ELSE [expenseChange |-> roundRatio(totalChange, pairs),
             direction |->
                 IF 20 * totalChange > pairs * currentExpenses THEN "up"
                 ELSE IF 20 * totalChange < -(pairs * currentExpenses)
                 THEN "down" ELSE "stable",
             percentChange |->
                 IF currentExpenses > 0
                 THEN roundRatio(100 * totalChange, pairs * currentExpenses)
                 ELSE 0]

\* the prediction predictNextMonthChange builds from the historical data:
\* avgChange = totalChange / pairs is compared with 5% of the expenses of
\* historicalData[0] without the division
nextMonthChangeOf(historicalData) ==
    LET totalChange ==
            sumAmounts([i \in 1..(Len(historicalData) - 1) |->
                [amount |-> historicalData[i].expenses
                            - historicalData[i + 1].expenses]])
        pairs == Len(historicalData) - 1
        currentExpenses == historicalData[1].expenses
    IN IF Len(historicalData) < 2
       THEN [expenseChange |-> 0, direction |-> "stable", percentChange |-> 0]
       ELSE [expenseChange |-> roundRatio(totalChange, pairs),
             direction |->
                 IF 20 * totalChange > pairs * currentExpenses THEN "up"
                 ELSE IF 20 * totalChange < -(pairs * currentExpenses)
                 THEN "down" ELSE "stable",
             percentChange |->
                 IF currentExpenses > 0
                 THEN roundRatio(100 * totalChange, pairs * currentExpenses)
                 ELSE 0]

\* predictNextMonthChange: reads only; ret is the prediction
predictNextMonthChange ==
    /\ ret' = nextMonthChangeOf(getHistoricalData(storedEntries, today, 3))
    /\ arg' = << >>
    /\ lastCall' = Call("predictNextMonthChange", "", 0, TRUE)
    /\ UNCHANGED <<today, entries, nextId, streak, achievements, budgets,
                   budgetMonth, passes, form, corrupt>>

----------------------------------------------------------------------------
(* services/insightEngine.ts: an insight is its type and the rule branch    *)
(* that produced it (the icon and message carry nothing else)               *)

\* the null a rule returns when it has nothing to say
NoInsight == [type |-> "none", rule |-> ""]

Insight(type, rule) == [type |-> type, rule |-> rule]

checkLowSavingsRate(savingsRate) ==
    IF savingsRate < 0 THEN Insight("warning", "savings in the red")
    ELSE IF savingsRate < 10 THEN Insight("warning", "savings very low")
    ELSE IF savingsRate < 20 THEN Insight("neutral", "savings decent")
    ELSE NoInsight

checkHighSavingsRate(savingsRate) ==
    IF savingsRate >= 40 THEN Insight("positive", "savings excellent")
    ELSE IF savingsRate >= 30 THEN Insight("positive", "savings great")
    ELSE IF savingsRate >= 20 THEN Insight("positive", "savings good")
    ELSE NoInsight

checkWantsOverspending(wantsRatio) ==
    IF wantsRatio > 50 THEN Insight("warning", "wants high")
    ELSE IF wantsRatio > 40 THEN Insight("neutral", "wants review")
    ELSE IF wantsRatio <= 30 /\ wantsRatio > 0
    THEN Insight("positive", "wants low")
    ELSE NoInsight

checkExpenseTrend(es, now) ==
    LET trend == expenseTrend(trendExpenses(es, now, 3))
    IN IF trend = "rising" THEN Insight("warning", "expenses rising")
       ELSE IF trend = "falling" THEN Insight("positive", "expenses falling")
       ELSE NoInsight

checkSavingsTrend(es, now) ==
    LET trend == savingsTrend(trendSavingsRates(es, now, 3))
    IN IF trend = "improving" THEN Insight("positive", "savings improving")
       ELSE IF trend = "declining" THEN Insight("warning", "savings declining")
       ELSE NoInsight

checkBudgetAdherence(bs, es, now) ==
    LET statuses == budgetStatusRows(bs, es, now)
        summary == getTotalBudgetSummary(statuses)
        overBudgetCount ==
            Len(SelectSeq(statuses, LAMBDA row : row.status = "red"))
    IN IF summary.totalBudget = 0 THEN Insight("neutral", "no budgets")
       ELSE IF overBudgetCount > 0 THEN Insight("warning", "over budget")
       ELSE IF summary.overallStatus = "green"
       THEN Insight("positive", "within budget")
       ELSE NoInsight

checkExpenseGrowth(growth) ==
    IF growth > 30 THEN Insight("warning", "expenses jumped")
    ELSE IF growth < -20 THEN Insight("positive", "spending down")
    ELSE NoInsight

\* the fourteen conditional pushes of generateInsights in their order, then
\* slice(0, 5)
pushInsights(savingsWarning, savingsPositive, wantsInsight, expenseTrendInsight, savingsTrendInsight, budgetInsight, growthInsight) ==
    LET pushes ==
            << [insight |-> savingsWarning,
                pushed |-> savingsWarning # NoInsight],
               [insight |-> wantsInsight,
                pushed |-> wantsInsight.type = "warning"],
               [insight |-> expenseTrendInsight,
                pushed |-> expenseTrendInsight.type = "warning"],
               [insight |-> savingsTrendInsight,
                pushed |-> savingsTrendInsight.type = "warning"],
               [insight |-> budgetInsight,
                pushed |-> budgetInsight.type = "warning"],
               [insight |-> growthInsight,
                pushed |-> growthInsight.type = "warning"],
               [insight |-> wantsInsight,
                pushed |-> wantsInsight.type = "neutral"],
               [insight |-> budgetInsight,
                pushed |-> budgetInsight.type = "neutral"],
               [insight |-> savingsPositive,
                pushed |-> savingsPositive # NoInsight],
               [insight |-> wantsInsight,
                pushed |-> wantsInsight.type = "positive"],
               [insight |-> expenseTrendInsight,
                pushed |-> expenseTrendInsight.type = "positive"],
               [insight |-> savingsTrendInsight,
                pushed |-> savingsTrendInsight.type = "positive"],
               [insight |-> budgetInsight,
                pushed |-> budgetInsight.type = "positive"],
               [insight |-> growthInsight,
                pushed |-> growthInsight.type = "positive"] >>
        kept == SelectSeq(pushes, LAMBDA p : p.pushed)
        insights == [i \in 1..Len(kept) |-> kept[i].insight]
    IN SubSeq(insights, 1, IF Len(insights) < 5 THEN Len(insights) ELSE 5)

\* the list generateInsights returns: the seven rules evaluated, then their
\* results pushed
insightsOf(bs, es, now) ==
    pushInsights(checkLowSavingsRate(savingsMetrics(es, now).savingsRate),
                 checkHighSavingsRate(savingsMetrics(es, now).savingsRate),
                 checkWantsOverspending(wantsRatioOf(es, now)),
                 checkExpenseTrend(es, now),
                 checkSavingsTrend(es, now),
                 checkBudgetAdherence(bs, es, now),
                 checkExpenseGrowth(expenseGrowthOf(es, now)))

\* generateInsights: its budget rule reads through getBudgets, which runs
\* the carry-forward; ret is the list returned, arg the three metrics the
\* rules were given
generateInsights ==
    LET r == checkAndResetMonthlyBudgets(budgets, getLastBudgetMonth, today)
    IN /\ "budgets" \notin corrupt
       /\ budgets' = r.budgets
       /\ budgetMonth' = IF "budgetMonth" \in corrupt THEN budgetMonth
                         ELSE r.month
       /\ passes' = passes + (IF r.rolled THEN 1 ELSE 0)
       /\ ret' = insightsOf(r.budgets, storedEntries, today)
       /\ arg' = [savingsRate |->
                      savingsMetrics(storedEntries, today).savingsRate,
                  wantsRatio |-> wantsRatioOf(storedEntries, today),
                  expenseGrowth |-> expenseGrowthOf(storedEntries, today)]
       /\ lastCall' = Call("generateInsights", "", 0, r.rolled)
       /\ UNCHANGED <<today, entries, nextId, streak, achievements,
                      form, corrupt>>

----------------------------------------------------------------------------
(* services/forecast.ts: the months of the historical window, with the      *)
(* clock read on the Gregorian calendar: a clock reading n is the n-th day  *)
(* after 1 January of EpochYear                                             *)

EpochYear == 2024

isLeapYear(year) ==
    year % 4 = 0 /\ (year % 100 # 0 \/ year % 400 = 0)

\* the number of days of month (0 = January) of year
daysInMonth(year, month) ==
    IF month = 1 THEN (IF isLeapYear(year) THEN 29 ELSE 28)
    ELSE IF month \in {3, 5, 8, 10} THEN 30 ELSE 31

RECURSIVE makeDate(_, _, _)
\* the Date of the day `offset` days after the first of (year, month): a day
\* past the end of the month falls in a later month
makeDate(year, month, offset) ==
    IF offset < daysInMonth(year, month)
    THEN [year |-> year, month |-> month, date |-> offset + 1]
    ELSE makeDate(IF month = 11 THEN year + 1 ELSE year, (month + 1) % 12,
                  offset - daysInMonth(year, month))

\* new Date() for the clock reading
newDate(now) == makeDate(EpochYear, 0, now)

\* Date.prototype.setMonth: the year absorbs months outside 0..11, the day
\* of the month is kept and carried over
setMonth(d, month) ==
    makeDate(d.year + (month \div 12), month % 12, d.date - 1)

\* getMonthDate of forecast.ts
forecastMonthDate(now, monthsAgo) ==
    LET d == newDate(now)
        date == setMonth(d, d.month - monthsAgo)
    IN [year |-> date.year, month |-> date.month]

\* the (year, month) pairs getHistoricalData asks getMonthlyData for
historicalMonths(now, months) ==
    [i \in 1..months |-> forecastMonthDate(now, i)]

\* getHistoricalData(months) on the Gregorian clock; ret holds the months
\* it reads and the clock's own month
getHistoricalMonths(months) ==
    /\ ret' = [window |-> historicalMonths(today, months),
               current |-> [year |-> newDate(today).year,
                            month |-> newDate(today).month]]
    /\ lastCall' = Call("getHistoricalData", "", months, TRUE)
    /\ UNCHANGED <<today, entries, nextId, streak, achievements, budgets,
                   budgetMonth, passes, form, arg, corrupt>>

----------------------------------------------------------------------------
(* The wall clock advances by k days *)

Tick(k, maxDay) ==
    /\ today + k <= maxDay
    /\ today' = today + k
    /\ passes' = IF getMonth(today + k) = getMonth(today)
                    /\ getFullYear(today + k) = getFullYear(today)
                 THEN passes ELSE 0
    /\ lastCall' = Call("tick", "", k, FALSE)
    /\ ret' = << >>
    /\ UNCHANGED <<form, arg, corrupt>>
    /\ UNCHANGED <<entries, nextId, streak, achievements, budgets, budgetMonth>>

----------------------------------------------------------------------------

Init ==
    /\ today = StartDay
    /\ entries = << >>
    /\ nextId = 1
    /\ streak = [currentStreak |-> 0, longestStreak |-> 0,
                 lastEntryDate |-> NoDate, totalDaysWithEntries |-> 0]
    /\ achievements = << >>
    /\ budgets = << >>
    /\ budgetMonth = NULL
    /\ lastCall = Call("init", "", 0, FALSE)
    /\ ret = << >>
    /\ passes = 0
    /\ form = ClosedForm
    /\ arg = << >>
    /\ corrupt = {}

NextBudget ==
    \/ getBudgets
    \/ \E c \in Categories, a \in Amounts : setBudget(c, a)
    \/ \E c \in Categories : removeBudget(c)
    \/ \E k \in 1..2 : Tick(k * DaysInMonth, StartDay + MaxMonths * DaysInMonth)

SpecBudget == Init /\ [][NextBudget]_vars

NextStreak ==
    \/ \E d \in (today - 2)..(today + 1) :
          /\ streak.totalDaysWithEntries < MaxTotal
          /\ updateStreak(d)
    \/ validateStreak
    \/ Tick(1, StartDay + MaxDays)

SpecStreak == Init /\ [][NextStreak]_vars

\* the days before the clock's day that went by without an entry, when at
\* most one qualifying entry is recorded a day
MissedDays ==
    (today - StartDay)
    - (streak.totalDaysWithEntries
       - (IF streak.lastEntryDate = today THEN 1 ELSE 0))

\* a user who records at most one entry a day dated that day or the day
\* before, any number of older ones, and lets at most MaxMissedDays days
\* pass without an entry
NextMilestones ==
    \/ \E d \in {today - 1, today} :
          /\ streak.lastEntryDate # today
          /\ updateStreak(d)
    \/ updateStreak(today - 2)
    \/ validateStreak
    \/ /\ streak.lastEntryDate = today \/ MissedDays < MaxMissedDays
       /\ Tick(1, StartDay + MaxStreakDays)

SpecMilestones == Init /\ [][NextMilestones]_vars

\* entries are added through the entry form only: no edit, no delete
NextFlow ==
    \/ \E amount \in 0..1, categoryGroup \in {"", "needs"},
          d \in (today - 2)..today :
          handleSave(amount, "expense", categoryGroup, "FoodGroceries", d, 0)
    \/ validateStreak
    \/ Tick(1, StartDay + MaxDays)

SpecFlow == Init /\ [][NextFlow]_vars

\* the entry form driven through its controls, and deletes from the list
NextForm ==
    \/ handleAddEntry
    \/ \E i \in 1..Len(entries) : handleEditEntry(i)
    \/ \E text \in {"", "-1", "1"} : setAmount(text)
    \/ \E type \in {"income", "expense"} : setType(type)
    \/ \E group \in {"needs", "lifestyle", "savings"} : setCategoryGroup(group)
    \/ changeCategoryGroup
    \/ \E category \in Categories : setCategory(category)
    \/ setDate(today - 2)
    \/ (form.editId = 0 => nextId <= MaxFormEntries) /\ handleSaveClick
    \/ handleCloseEntry
    \/ \E i \in 1..Len(entries) : ~form.open /\ deleteEntry(entries[i].id)

SpecForm == Init /\ [][NextForm]_vars

\* partial updates given to updateEntry
UpdateSamples ==
    {[amount |-> 2],
     [type |-> "income"],
     [category |-> "Shopping", categoryGroup |-> "lifestyle",
      priority |-> "lifestyle"]}

\* the entry store driven through addEntry (by the form), updateEntry, deleteEntry
NextStore ==
    \/ handleSave(1, "expense", "needs", "FoodGroceries", today, 0)
    \/ \E id \in 1..nextId, updates \in UpdateSamples :
          callUpdateEntry(id, updates)
    \/ \E i \in 1..Len(entries) : deleteEntry(entries[i].id)
    \/ Tick(1, StartDay + MaxGameDays)

SpecStore == Init /\ [][NextStore]_vars

\* the records are written, then some stored texts are damaged, then read
NextCorrupt ==
    \/ corrupt = {} /\ handleSave(1, "expense", "needs", "FoodGroceries", today, 0)
    \/ corrupt = {} /\ \E category \in Categories : setBudget(category, 1)
    \/ \E key \in StorageKeys : corruptStorage(key)
    \/ getEntries
    \/ getBudgets
    \/ getStreakData
    \/ getAchievements
    \/ Tick(DaysInMonth, StartDay + DaysInMonth)

SpecCorrupt == Init /\ [][NextCorrupt]_vars

\* (categoryGroup, priority) of stored expenses: written by this version,
\* written by the version that had priority need/want only, and with neither
StoredGroupShapes ==
    {<<"needs", "needs">>, <<"lifestyle", "lifestyle">>,
     <<"savings", "savings">>, <<"", "need">>, <<"", "want">>, <<"", "">>}

\* the entries a store holds: expenses of amount 1 and incomes of amount 2,
\* dated this month or last month
StoredSamples ==
    {[amount |-> 1, type |-> "expense", category |-> c, categoryGroup |-> g[1],
      priority |-> g[2], date |-> d] :
        c \in Categories, g \in StoredGroupShapes,
        d \in {StartDay, StartDay - DaysInMonth}}
    \cup
    {[amount |-> 2, type |-> "income", category |-> "FoodGroceries",
      categoryGroup |-> "needs", priority |-> "needs", date |-> d] :
        d \in {StartDay, StartDay - DaysInMonth}}

\* the stores of at most MaxStored entries, in the order they were pushed
StoredLists ==
    {[i \in 1..Len(f) |->
         [id |-> i, amount |-> f[i].amount, type |-> f[i].type,
          category |-> f[i].category, categoryGroup |-> f[i].categoryGroup,
          priority |-> f[i].priority, date |-> f[i].date, createdAt |-> i]] :
     f \in UNION {[1..n -> StoredSamples] : n \in 0..MaxStored}}

InitMonthly ==
    /\ today = StartDay
    /\ entries \in StoredLists
    /\ nextId = Len(entries) + 1
    /\ streak = [currentStreak |-> 0, longestStreak |-> 0,
                 lastEntryDate |-> NoDate, totalDaysWithEntries |-> 0]
    /\ achievements = << >>
    /\ budgets = << >>
    /\ budgetMonth = NULL
    /\ lastCall = Call("init", "", 0, FALSE)
    /\ ret = << >>
    /\ passes = 0
    /\ form = ClosedForm
    /\ arg = << >>
    /\ corrupt = {}

\* monthly summaries read from a store, with deletions in between
NextMonthly ==
    \/ \E d \in {today, today - DaysInMonth} :
          callGetMonthlyData(getFullYear(d), getMonth(d))
    \/ \E i \in 1..Len(entries) : deleteEntry(entries[i].id)

SpecMonthly == InitMonthly /\ [][NextMonthly]_vars

\* the Insights page: budgets set and removed through the modal, the status
\* rows read, expenses saved, months passing
NextStatus ==
    \/ \E category \in Categories, text \in {"", "-1", "1"} :
          handleSaveBudget(category, text)
    \/ \E category \in Categories : handleRemoveBudget(category)
    \/ getAllBudgetStatuses
    \/ /\ nextId <= MaxFormEntries
       /\ handleSave(1, "expense", "needs", "FoodGroceries", today, 0)
    \/ Tick(DaysInMonth, StartDay + MaxMonths * DaysInMonth)

SpecStatus == Init /\ [][NextStatus]_vars

\* the operations of the application that run while entries are added and
\* the pages are shown: Save of an income or an expense (addEntry and
\* updateStreak), validateStreak (Home), getAnalyticsMetrics (Insights)
addIncomeOrExpense ==
    \/ handleSave(2, "income", "", "FoodGroceries", today, 0)
    \/ handleSave(1, "expense", "needs", "FoodGroceries", today, 0)

NextSaver ==
    \/ addIncomeOrExpense
    \/ validateStreak
    \/ getAnalyticsMetrics
    \/ Tick(1, StartDay + MaxDays)

\* every operation that can run eventually runs
SpecSaver ==
    /\ Init /\ [][NextSaver]_vars
    /\ WF_vars(addIncomeOrExpense)
    /\ WF_vars(validateStreak)
    /\ WF_vars(getAnalyticsMetrics)

\* budget amounts and expense amounts whose ratios fall on both sides of
\* the 70 and 90 marks
TierBudgetAmounts == {10, 20}
TierSpendAmounts == {6, 7, 9, 11}

\* stores of one budget row of this month and at most MaxTierEntries
\* expenses of its category dated today
TierEntryLists ==
    {[i \in 1..Len(f) |->
         [id |-> i, amount |-> f[i], type |-> "expense",
          category |-> "FoodGroceries", categoryGroup |-> "needs",
          priority |-> "needs", date |-> StartDay, createdAt |-> StartDay]] :
     f \in UNION {[1..n -> TierSpendAmounts] : n \in 0..MaxTierEntries}}

InitTiers ==
    /\ today = StartDay
    /\ entries \in TierEntryLists
    /\ nextId = Len(entries) + 1
    /\ streak = [currentStreak |-> 0, longestStreak |-> 0,
                 lastEntryDate |-> NoDate, totalDaysWithEntries |-> 0]
    /\ achievements = << >>
    /\ \E b \in TierBudgetAmounts :
         budgets = setBudgetRows(<< >>, "FoodGroceries", b, StartDay)
    /\ budgetMonth = updateLastBudgetMonth(StartDay)
    /\ lastCall = Call("init", "", 0, FALSE)
    /\ ret = << >>
    /\ passes = 0
    /\ form = ClosedForm
    /\ arg = << >>
    /\ corrupt = {}

\* the status of a category read, entries deleted, the month passing
NextTiers ==
    \/ \E category \in Categories : callGetBudgetStatus(category)
    \/ \E i \in 1..Len(entries) : deleteEntry(entries[i].id)
    \/ Tick(DaysInMonth, StartDay + DaysInMonth)

SpecTiers == InitTiers /\ [][NextTiers]_vars

\* needs expenses of amount 1 or 2 and incomes of amount 3, dated in the
\* clock's month and the three months before it, and a needs expense of 20
\* dated in the clock's month
HistorySamples ==
    {[amount |-> a, type |-> "expense", category |-> "FoodGroceries",
      categoryGroup |-> "needs", priority |-> "needs",
      date |-> StartDay - k * DaysInMonth] : a \in {1, 2}, k \in {0, 1, 2, 3}}
    \cup
    {[amount |-> 20, type |-> "expense", category |-> "FoodGroceries",
      categoryGroup |-> "needs", priority |-> "needs", date |-> StartDay]}
    \cup
    {[amount |-> 3, type |-> "income", category |-> "FoodGroceries",
      categoryGroup |-> "needs", priority |-> "needs",
      date |-> StartDay - k * DaysInMonth] : k \in {0, 1, 2, 3}}

\* the stores of at most MaxHistory such entries
HistoryLists ==
    {[i \in 1..Len(f) |->
         [id |-> i, amount |-> f[i].amount, type |-> f[i].type,
          category |-> f[i].category, categoryGroup |-> f[i].categoryGroup,
          priority |-> f[i].priority, date |-> f[i].date,
          createdAt |-> StartDay]] :
     f \in UNION {[1..n -> HistorySamples] : n \in 0..MaxHistory}}

InitHistory ==
    /\ today = StartDay
    /\ entries \in HistoryLists
    /\ nextId = Len(entries) + 1
    /\ streak = [currentStreak |-> 0, longestStreak |-> 0,
                 lastEntryDate |-> NoDate, totalDaysWithEntries |-> 0]
    /\ achievements = << >>
    /\ budgets = << >>
    /\ budgetMonth = NULL
    /\ lastCall = Call("init", "", 0, FALSE)
    /\ ret = << >>
    /\ passes = 0
    /\ form = ClosedForm
    /\ arg = << >>
    /\ corrupt = {}

\* the trend over 0 to 3 months read from a store
NextTrend ==
    \/ \E months \in 0..3 : getExpenseTrend(months)
    \/ \E i \in 1..Len(entries) : deleteEntry(entries[i].id)

SpecTrend == InitHistory /\ [][NextTrend]_vars

\* the window read on every day of EpochYear and the year after it
InitCalendar ==
    /\ today = 0
    /\ entries = << >>
    /\ nextId = 1
    /\ streak = [currentStreak |-> 0, longestStreak |-> 0,
                 lastEntryDate |-> NoDate, totalDaysWithEntries |-> 0]
    /\ achievements = << >>
    /\ budgets = << >>
    /\ budgetMonth = NULL
    /\ lastCall = Call("init", "", 0, FALSE)
    /\ ret = << >>
    /\ passes = 0
    /\ form = ClosedForm
    /\ arg = << >>
    /\ corrupt = {}

NextCalendar ==
    \/ \E months \in 1..MaxWindow : getHistoricalMonths(months)
    \/ Tick(1, MaxCalendarDays)

SpecCalendar == InitCalendar /\ [][NextCalendar]_vars

\* the lists calculateWeightedAverage is applied to
AverageSamples ==
    {<< >>, <<0>>, <<100>>, <<200, 100>>, <<100, 200>>, <<0, 100>>,
     <<100, 100, 200>>, <<200, 0, 100>>}

\* forecasts of a store, and the weighted average of a list
NextForecast ==
    \/ \E monthsToAnalyze \in 1..MaxWindow : generateForecast(monthsToAnalyze)
    \/ \E values \in AverageSamples : applyWeightedAverage(values)
    \/ predictNextMonthChange
    \/ \E i \in 1..Len(entries) : deleteEntry(entries[i].id)

SpecForecast == InitHistory /\ [][NextForecast]_vars

\* the state after construction but for the entry store, which is one of
\* `stores`
InitStore(stores) ==
    /\ today = StartDay
    /\ entries \in stores
    /\ nextId = Len(entries) + 1
    /\ streak = [currentStreak |-> 0, longestStreak |-> 0,
                 lastEntryDate |-> NoDate, totalDaysWithEntries |-> 0]
    /\ achievements = << >>
    /\ budgets = << >>
    /\ budgetMonth = NULL
    /\ lastCall = Call("init", "", 0, FALSE)
    /\ ret = << >>
    /\ passes = 0
    /\ form = ClosedForm
    /\ arg = << >>
    /\ corrupt = {}

\* expenses of amount 1, 2 or 3 of two categories, dated in the clock's month
\* or the month before it
GrowthSamples ==
    {[amount |-> a, type |-> "expense", category |-> c,
      categoryGroup |-> CATEGORY_TO_GROUP[c], priority |-> CATEGORY_TO_GROUP[c],
      date |-> StartDay - k * DaysInMonth] :
        a \in {1, 2, 3}, c \in Categories, k \in {0, 1}}

\* the stores of at most MaxHistory such entries
GrowthLists ==
    {[i \in 1..Len(f) |->
         [id |-> i, amount |-> f[i].amount, type |-> f[i].type,
          category |-> f[i].category, categoryGroup |-> f[i].categoryGroup,
          priority |-> f[i].priority, date |-> f[i].date,
          createdAt |-> StartDay]] :
     f \in UNION {[1..n -> GrowthSamples] : n \in 0..MaxHistory}}

InitGrowth == InitStore(GrowthLists)

\* the category growth of a store read, entries deleted
NextGrowth ==
    \/ calculateCategoryGrowth
    \/ \E i \in 1..Len(entries) : deleteEntry(entries[i].id)

SpecGrowth == InitGrowth /\ [][NextGrowth]_vars

\* incomes of 7 and needs expenses of 5 or 6, dated in the clock's month or
\* the month before it
ScoreSamples ==
    {[amount |-> 7, type |-> "income", category |-> "FoodGroceries",
      categoryGroup |-> "needs", priority |-> "needs",
      date |-> StartDay - k * DaysInMonth] : k \in {0, 1}}
    \cup
    {[amount |-> a, type |-> "expense", category |-> "FoodGroceries",
      categoryGroup |-> "needs", priority |-> "needs",
      date |-> StartDay - k * DaysInMonth] : a \in {5, 6}, k \in {0, 1}}

\* the stores of at most MaxHistory such entries
ScoreLists ==
    {[i \in 1..Len(f) |->
         [id |-> i, amount |-> f[i].amount, type |-> f[i].type,
          category |-> f[i].category, categoryGroup |-> f[i].categoryGroup,
          priority |-> f[i].priority, date |-> f[i].date,
          createdAt |-> StartDay]] :
     f \in UNION {[1..n -> ScoreSamples] : n \in 0..MaxHistory}}

\* budget amounts of the one budgeted category
ScoreBudgetAmounts == {5, 6}

\* a store of entries, with no budget or with one budget row of this month
InitScore ==
    /\ today = StartDay
    /\ entries \in ScoreLists
    /\ nextId = Len(entries) + 1
    /\ streak = [currentStreak |-> 0, longestStreak |-> 0,
                 lastEntryDate |-> NoDate, totalDaysWithEntries |-> 0]
    /\ achievements = << >>
    /\ \/ budgets = << >> /\ budgetMonth = NULL
       \/ /\ \E b \in ScoreBudgetAmounts :
               budgets = setBudgetRows(<< >>, "FoodGroceries", b, StartDay)
          /\ budgetMonth = updateLastBudgetMonth(StartDay)
    /\ lastCall = Call("init", "", 0, FALSE)
    /\ ret = << >>
    /\ passes = 0
    /\ form = ClosedForm
    /\ arg = << >>
    /\ corrupt = {}

\* the score read, the budget removed, entries deleted
NextScore ==
    \/ calculateFinancialScore
    \/ handleRemoveBudget("FoodGroceries")
    \/ \E i \in 1..Len(entries) : deleteEntry(entries[i].id)

SpecScore == InitScore /\ [][NextScore]_vars

\* income of 10 and expenses on needs (4 or 9) and on wants (9), dated in
\* the clock's month or one of the two months before it
InsightSamples ==
    {[amount |-> 10, type |-> "income", category |-> "FoodGroceries",
      categoryGroup |-> "needs", priority |-> "needs",
      date |-> StartDay - k * DaysInMonth] : k \in {0, 1}}
    \cup
    {[amount |-> a, type |-> "expense", category |-> "FoodGroceries",
      categoryGroup |-> "needs", priority |-> "needs",
      date |-> StartDay - k * DaysInMonth] : a \in {4, 9}, k \in {0, 1, 2}}
    \cup
    {[amount |-> 9, type |-> "expense", category |-> "Shopping",
      categoryGroup |-> "lifestyle", priority |-> "lifestyle",
      date |-> StartDay]}

\* the stores of at most MaxHistory such entries
InsightLists ==
    {[i \in 1..Len(f) |->
         [id |-> i, amount |-> f[i].amount, type |-> f[i].type,
          category |-> f[i].category, categoryGroup |-> f[i].categoryGroup,
          priority |-> f[i].priority, date |-> f[i].date,
          createdAt |-> StartDay]] :
     f \in UNION {[1..n -> InsightSamples] : n \in 0..MaxHistory}}

\* budget amounts of the one budgeted category
InsightBudgetAmounts == {10}

\* a store of entries, with no budget or with one budget row of this month
InitInsights ==
    /\ today = StartDay
    /\ entries \in InsightLists
    /\ nextId = Len(entries) + 1
    /\ streak = [currentStreak |-> 0, longestStreak |-> 0,
                 lastEntryDate |-> NoDate, totalDaysWithEntries |-> 0]
    /\ achievements = << >>
    /\ \/ budgets = << >> /\ budgetMonth = NULL
       \/ /\ \E b \in InsightBudgetAmounts :
               budgets = setBudgetRows(<< >>, "FoodGroceries", b, StartDay)
          /\ budgetMonth = updateLastBudgetMonth(StartDay)
    /\ lastCall = Call("init", "", 0, FALSE)
    /\ ret = << >>
    /\ passes = 0
    /\ form = ClosedForm
    /\ arg = << >>
    /\ corrupt = {}

\* the insights read, the budget removed, entries deleted
NextInsights ==
    \/ generateInsights
    \/ handleRemoveBudget("FoodGroceries")
    \/ \E i \in 1..Len(entries) : deleteEntry(entries[i].id)

SpecInsights == InitInsights /\ [][NextInsights]_vars

IdsOf(es) == {es[i].id : i \in 1..Len(es)}

NextGame ==
    \/ \E d \in {today - 2, today},
          editId \in {0} \cup IdsOf(entries) :
          /\ streak.totalDaysWithEntries < MaxGameTotal
          /\ editId = 0 => nextId <= MaxGameEntries
          /\ handleSave(1, "expense", "needs", "FoodGroceries", d, editId)
    \/ \E id \in IdsOf(entries) : deleteEntry(id)
    \/ \E d \in (today - 2)..today :
          /\ streak.totalDaysWithEntries < MaxGameTotal
          /\ updateStreak(d)
    \/ validateStreak
    \/ \E id \in {"first_entry", "saver", "no_such_id"} : unlockAchievement(id)
    \/ Tick(1, StartDay + MaxGameDays)

SpecGame == Init /\ [][NextGame]_vars

----------------------------------------------------------------------------
(* Budget store properties *)

SameKey(a, b) == a.category = b.category /\ a.month = b.month /\ a.year = b.year

UniqueKeys ==
    \A i, j \in 1..Len(budgets) : SameKey(budgets[i], budgets[j]) => i = j

SetExistingInPlace ==
    (/\ lastCall'.name = "setBudget"
     /\ \E i \in 1..Len(budgets) :
           /\ budgets[i].category = lastCall'.cat
           /\ budgets[i].month = getMonth(today)
           /\ budgets[i].year = getFullYear(today))
    => /\ Len(budgets') = Len(budgets)
       /\ \A i \in 1..Len(budgets) :
             /\ SameKey(budgets'[i], budgets[i])
             /\ budgets'[i].amount =
                  IF /\ budgets[i].category = lastCall'.cat
                     /\ budgets[i].month = getMonth(today)
                     /\ budgets[i].year = getFullYear(today)
                  THEN lastCall'.num ELSE budgets[i].amount

\* C1: the budget store never holds two rows of one (category, month, year),
\* and setBudget on a key that has a row changes only that row's amount and
\* adds no row.
C1_OneRowPerKey == [](UniqueKeys) /\ [][SetExistingInPlace]_vars

\* setBudget has just updated a row in place, in a store that also holds the
\* same category's rows of earlier months
C1_Witness ==
    /\ lastCall.name = "setBudget" /\ lastCall.ok
    /\ today > StartDay
    /\ Cardinality({i \in 1..Len(budgets) :
                       budgets[i].category = lastCall.cat}) >= 2
    /\ \E i \in 1..Len(budgets) :
          /\ budgets[i].category = lastCall.cat
          /\ budgets[i].month = getMonth(today)
          /\ budgets[i].amount = lastCall.num

\* the indices of the rows of the marker's month, and the k-th of them
MarkerRows == {i \in 1..Len(budgets) : /\ budgets[i].month = budgetMonth.month
                                       /\ budgets[i].year = budgetMonth.year}
KthMarkerRow(k) ==
    CHOOSE i \in MarkerRows : Cardinality({j \in MarkerRows : j < i}) = k - 1

RolloverAppends ==
    (/\ lastCall'.name = "getBudgets"
     /\ budgetMonth # NULL
     /\ (budgetMonth.month # getMonth(today)
           \/ budgetMonth.year # getFullYear(today)))
    => /\ Len(budgets') = Len(budgets) + Cardinality(MarkerRows)
       /\ \A i \in 1..Len(budgets) : budgets'[i] = budgets[i]
       /\ \A k \in 1..Cardinality(MarkerRows) :
             budgets'[Len(budgets) + k] =
                [category |-> budgets[KthMarkerRow(k)].category,
                 amount |-> budgets[KthMarkerRow(k)].amount,
                 month |-> getMonth(today), year |-> getFullYear(today)]
       /\ budgetMonth' = [month |-> getMonth(today),
                          year |-> getFullYear(today)]

\* C2: the first budget read after the clock's (month, year) differs from the
\* marker appends, to the unchanged old store, one row of the current month
\* for each row of the marker's month, and moves the marker to the current
\* month.
C2_RolloverCarriesForward == [][RolloverAppends]_vars

\* a read has just carried rows forward into a store that keeps the old rows
C2_Witness ==
    /\ lastCall.name = "getBudgets" /\ lastCall.ok
    /\ \E i, j \in 1..Len(budgets) :
          /\ i < j
          /\ budgets[i].category = budgets[j].category
          /\ budgets[i].amount = budgets[j].amount
          /\ budgets[i].month # budgets[j].month
          /\ budgets[j].month = getMonth(today)
    /\ budgetMonth.month = getMonth(today)

RepeatedReadIsNoOp ==
    (lastCall.name = "getBudgets" /\ lastCall'.name = "getBudgets")
    => budgets' = budgets /\ budgetMonth' = budgetMonth /\ ret' = ret

\* C3: between two advances of the clock's month at most one rollover pass
\* runs, and a read that directly follows a read changes neither the store
\* nor the marker and returns the same list.
C3_OnePassPerMonth == [](passes <= 1) /\ [][RepeatedReadIsNoOp]_vars

\* a read that did not roll over, in a month whose rollover already ran
C3_Witness ==
    /\ lastCall.name = "getBudgets" /\ ~lastCall.ok
    /\ passes = 1
    /\ Len(budgets) >= 2
    /\ ret = budgets

----------------------------------------------------------------------------
(* Streak properties *)

DefaultStreak == [currentStreak |-> 0, longestStreak |-> 0,
                  lastEntryDate |-> NoDate, totalDaysWithEntries |-> 0]

UpdateStreakRule ==
    (/\ lastCall'.name = "updateStreak"
     /\ (lastCall'.num = today \/ lastCall'.num = today - 1))
    => /\ streak'.currentStreak =
            IF streak.lastEntryDate = today - 1 \/ streak.lastEntryDate = NoDate
            THEN streak.currentStreak + 1
            ELSE IF streak.lastEntryDate # today THEN 1
            ELSE streak.currentStreak
       /\ streak'.lastEntryDate = today
       /\ streak'.longestStreak =
            Max(streak.longestStreak, streak'.currentStreak)
       /\ (streak = DefaultStreak
            => streak'.currentStreak = 1 /\ streak'.longestStreak = 1)
       /\ (streak.currentStreak = 1 /\ streak.lastEntryDate = today - 1
            => streak'.currentStreak = 2)
       /\ (streak.lastEntryDate # NoDate /\ streak.lastEntryDate <= today - 3
            => streak'.currentStreak = 1)

\* C4: updateStreak(d) with d today or yesterday adds 1 to currentStreak when
\* lastEntryDate is yesterday or empty, sets it to 1 when lastEntryDate is
\* older than yesterday, leaves it when lastEntryDate is today; lastEntryDate
\* becomes today and longestStreak the maximum of itself and currentStreak.
C4_UpdateStreakRule == [][UpdateStreakRule]_vars

\* a qualifying updateStreak has just restarted a broken streak at 1
C4_Witness ==
    /\ lastCall.name = "updateStreak" /\ lastCall.ok
    /\ streak.currentStreak = 1
    /\ streak.longestStreak >= 2
    /\ streak.lastEntryDate = today

\* C5: updateStreak(d) with d earlier than yesterday leaves the streak record
\* unchanged.
C5_OldEntryLeavesStreak ==
    [][(lastCall'.name = "updateStreak" /\ lastCall'.num < today - 1)
        => streak' = streak]_vars

\* updateStreak was called with an old date on a running streak that a
\* qualifying call would have reset
C5_Witness ==
    /\ lastCall.name = "updateStreak" /\ lastCall.num < today - 1
    /\ streak.currentStreak >= 2
    /\ streak.lastEntryDate < today - 1

ValidateStreakRule ==
    lastCall'.name = "validateStreak"
    => /\ streak'.currentStreak =
            IF streak.lastEntryDate # today /\ streak.lastEntryDate # today - 1
            THEN 0 ELSE streak.currentStreak
       /\ streak'.longestStreak = streak.longestStreak
       /\ streak'.lastEntryDate = streak.lastEntryDate
       /\ streak'.totalDaysWithEntries = streak.totalDaysWithEntries

\* C6: validateStreak sets currentStreak to 0 exactly when lastEntryDate is
\* neither today nor yesterday, and changes nothing else.
C6_ValidateStreakRule == [][ValidateStreakRule]_vars

\* validateStreak has just zeroed a streak whose last entry is stale
C6_Witness ==
    /\ lastCall.name = "validateStreak" /\ lastCall.ok
    /\ streak.currentStreak = 0
    /\ streak.longestStreak >= 2
    /\ streak.lastEntryDate = today - 2

\* C7: longestStreak >= currentStreak >= 0 in every state, and longestStreak
\* never decreases.
C7_LongestBoundsCurrent ==
    /\ [](streak.longestStreak >= streak.currentStreak
           /\ streak.currentStreak >= 0)
    /\ [][streak'.longestStreak >= streak.longestStreak]_vars

\* a restarted streak below the longest one
C7_Witness ==
    /\ streak.currentStreak >= 1
    /\ streak.longestStreak > streak.currentStreak + 1
    /\ streak.lastEntryDate = today

----------------------------------------------------------------------------
(* Streak and achievements against the entry store *)

EntryDates == {entries[i].date : i \in 1..Len(entries)}

\* the length of the longest run of consecutive dates that carry an entry
LongestRun ==
    LET runs == {n \in 0..Cardinality(EntryDates) :
                   n = 0 \/ \E d \in EntryDates : \A k \in 0..(n - 1) :
                                                    (d + k) \in EntryDates}
    IN CHOOSE n \in runs : \A m \in runs : m <= n

\* C8: with entries added only through the entry form, currentStreak never
\* exceeds the longest run of consecutive calendar dates carrying an entry.
C8_StreakWithinRun == streak.currentStreak <= LongestRun

\* C9: the unlocked achievement ids only grow and hold no duplicate, and
\* unlockAchievement of an unlocked or undefined id returns false and leaves
\* the stored list unchanged.
C9_UnlockedOnlyGrows ==
    /\ [](Cardinality(Range(achievements)) = Len(achievements))
    /\ [][Range(achievements) \subseteq Range(achievements')]_vars
    /\ [][(/\ lastCall'.name = "unlockAchievement"
           /\ (lastCall'.cat \in Range(achievements)
                \/ lastCall'.cat \notin Range(ACHIEVEMENT_DEFINITIONS)))
          => ~lastCall'.ok /\ achievements' = achievements]_vars

\* unlockAchievement has just refused an id that is already in a list of two
C9_Witness ==
    /\ lastCall.name = "unlockAchievement" /\ ~lastCall.ok
    /\ lastCall.cat \in Range(achievements)
    /\ Len(achievements) >= 2
    /\ "first_entry" \in Range(achievements)

\* C10: once the first entry has been added through the entry form,
\* first_entry is unlocked, whatever date the entry carries.
C10_FirstEntryUnlocked ==
    (Len(entries) = 1 /\ lastCall.name = "handleSave" /\ lastCall.ok)
    => "first_entry" \in Range(achievements)

----------------------------------------------------------------------------
(* The entry form *)

InvalidForm ==
    \/ form.amount \in {"", "0", "-1"}
    \/ (form.type = "expense" /\ form.categoryGroup = "")

\* C12: a save with a non-positive or non-numeric amount, or of an expense
\* with no category group, changes neither the entry store nor the streak
\* record nor the achievements.
C12_InvalidSaveRejected ==
    [][(lastCall'.name = "handleSave" /\ InvalidForm)
        => /\ ~lastCall'.ok
           /\ entries' = entries /\ nextId' = nextId
           /\ streak' = streak /\ achievements' = achievements]_vars

\* the edit of a stored expense was refused because its group was cleared
C12_Witness ==
    /\ lastCall.name = "handleSave" /\ lastCall.cat = "edit" /\ ~lastCall.ok
    /\ form.open /\ form.amount = "1"
    /\ form.type = "expense" /\ form.categoryGroup = ""
    /\ Len(entries) = 1

\* C13: every stored entry has amount > 0.
C13_AmountsPositive == \A i \in 1..Len(entries) : entries[i].amount > 0

\* an entry has just been updated from a form whose amount was retyped
C13_Witness ==
    /\ lastCall.name = "handleSave" /\ lastCall.cat = "edit" /\ lastCall.ok
    /\ Len(entries) = 1
    /\ form.showSuccess
    /\ entries[1].amount = 1

\* C16: every stored expense has categoryGroup = CATEGORY_TO_GROUP[category]
\* and priority = categoryGroup.
C16_GroupDerivedFromCategory ==
    \A i \in 1..Len(entries) :
        entries[i].type = "expense"
        => /\ entries[i].categoryGroup = CATEGORY_TO_GROUP[entries[i].category]
           /\ entries[i].priority = entries[i].categoryGroup

----------------------------------------------------------------------------
(* The entry store *)

UpdateEntryFrame ==
    lastCall'.name = "updateEntry"
    => LET id == lastCall'.num
           hit == {i \in 1..Len(entries) : entries[i].id = id}
       IN IF hit = {}
          THEN entries' = entries /\ ret' = << >> /\ ~lastCall'.ok
          ELSE /\ Len(entries') = Len(entries)
               /\ \A i \in 1..Len(entries) :
                    IF i \in hit
                    THEN /\ entries'[i].id = entries[i].id
                         /\ entries'[i].createdAt = entries[i].createdAt
                         /\ \A f \in DOMAIN entries[i] :
                              entries'[i][f] = IF f \in DOMAIN arg'
                                               THEN arg'[f] ELSE entries[i][f]
                         /\ ret' = entries'[i]
                    ELSE entries'[i] = entries[i]

\* C14: updateEntry on a stored id changes only the given fields of that
\* entry (not its id, createdAt or position, no other entry, not the number
\* of entries); on an unknown id it returns null and leaves the store alone.
C14_UpdateEntryFrame == [][UpdateEntryFrame]_vars

\* the first of two stored entries has just been given a new amount
C14_Witness ==
    /\ lastCall.name = "updateEntry" /\ lastCall.ok
    /\ Len(entries) = 2
    /\ lastCall.num = entries[1].id
    /\ "amount" \in DOMAIN arg
    /\ entries[1].amount = 2 /\ entries[2].amount = 1

----------------------------------------------------------------------------
(* Malformed persisted state *)

CorruptReadRecovers ==
    /\ lastCall'.cat # Raised
    /\ (lastCall'.name = "getEntries" /\ "entries" \in corrupt)
       => ret' = << >>
    /\ (lastCall'.name = "getBudgets" /\ "budgets" \in corrupt)
       => ret' = << >> /\ budgets' = budgets
    /\ (lastCall'.name = "getBudgets" /\ "budgetMonth" \in corrupt)
       => ~lastCall'.ok /\ budgets' = budgets
    /\ (lastCall'.name = "getStreakData" /\ "streak" \in corrupt)
       => ret' = DefaultStreak
    /\ (lastCall'.name = "getAchievements" /\ "achievements" \in corrupt)
       => ret' = << >>

\* C15: a read of a persisted record (entries, budgets, marker, streak,
\* achievements) whose stored value does not parse returns the empty/default
\* value and never raises.
C15_CorruptReadsRecover == [][CorruptReadRecovers]_vars

----------------------------------------------------------------------------
(* Monthly summary *)

\* C17: the balance getMonthlyData returns is totalIncome - totalNeeds -
\* totalLifestyle - totalSavings, and totalWants equals totalLifestyle, for
\* every store and month.
C17_BalanceIdentity ==
    lastCall.name = "getMonthlyData"
    => /\ ret.balance = ret.totalIncome - ret.totalNeeds
                        - ret.totalLifestyle - ret.totalSavings
       /\ ret.totalWants = ret.totalLifestyle

\* a month with an income and a savings expense has been summarised
C17_Witness ==
    /\ lastCall.name = "getMonthlyData"
    /\ ret.totalIncome = 2 /\ ret.totalSavings = 1 /\ ret.balance = 1

\* the group the summary is said to use: categoryGroup, else the legacy
\* priority, else the category's group
ResolvedGroup(e) ==
    IF e.categoryGroup # "" THEN e.categoryGroup
    ELSE IF e.priority \in {"need", "needs"} THEN "needs"
    ELSE IF e.priority \in {"want", "lifestyle"} THEN "lifestyle"
    ELSE IF e.priority = "savings" THEN "savings"
    ELSE CATEGORY_TO_GROUP[e.category]

GroupTotal(group) ==
    sumAmounts(SelectSeq(entries, LAMBDA e :
        /\ e.type = "expense"
        /\ getFullYear(e.date) = arg.year /\ getMonth(e.date) = arg.month
        /\ ResolvedGroup(e) = group))

\* C18: every expense of the month is added to the total of its group, the
\* group being its categoryGroup, else its legacy priority (need -> needs,
\* want -> lifestyle), else the group of its category.
C18_GroupResolution ==
    lastCall.name = "getMonthlyData"
    => /\ ret.totalNeeds = GroupTotal("needs")
       /\ ret.totalLifestyle = GroupTotal("lifestyle")
       /\ ret.totalSavings = GroupTotal("savings")

MonthlyDataIsPureRead ==
    /\ lastCall'.name = "getMonthlyData"
       => UNCHANGED <<entries, budgets, budgetMonth, streak, achievements,
                      corrupt>>
    /\ (/\ lastCall.name = "getMonthlyData"
        /\ lastCall'.name = "getMonthlyData"
        /\ arg' = arg)
       => ret' = ret

\* C19: getMonthlyData changes no persisted record, and two calls for the
\* same (year, month) with no write in between return the same value.
C19_MonthlyDataIsPureRead == [][MonthlyDataIsPureRead]_vars

\* a store of two entries of different months has been summarised for the
\* month of its older entry only
C19_Witness ==
    /\ lastCall.name = "getMonthlyData"
    /\ Len(entries) = 2
    /\ entries[1].date # entries[2].date
    /\ ret.totalNeeds = 1 /\ ret.totalLifestyle = 0
    /\ arg.month = getMonth(today - DaysInMonth)

----------------------------------------------------------------------------
(* Budget status rows *)

StatusRowsMatchBudgetRows ==
    lastCall'.name = "getAllBudgetStatuses"
    => \A c \in Range(ALL_CATEGORIES) :
         Cardinality({i \in 1..Len(ret') : ret'[i].category = c})
         = IF \E j \in 1..Len(budgets') :
                 /\ budgets'[j].category = c
                 /\ budgets'[j].month = getMonth(today')
                 /\ budgets'[j].year = getFullYear(today')
           THEN 1 ELSE 0

\* C20: getAllBudgetStatuses returns exactly one row for each category that
\* has a budget row of the current month, and no row for any other category
\* (none after removeBudget, none for rows of other months only).
C20_StatusRowsMatchBudgetRows == [][StatusRowsMatchBudgetRows]_vars

\* the rows were read when one category had a budget this month and the
\* other had rows of an earlier month only
C20_Witness ==
    /\ lastCall.name = "getAllBudgetStatuses"
    /\ Len(ret) = 1
    /\ \E j \in 1..Len(budgets) :
         /\ budgets[j].category # ret[1].category
         /\ budgets[j].month # getMonth(today)

----------------------------------------------------------------------------
(* The saver achievement *)

SaverDue == savingsMetrics(entries, today).savingsRate >= 20

SaverUnlocked == "saver" \in Range(achievements)

\* C11: from a state where the current month's savings rate is 20 or more,
\* the operations of the application (adding an entry, streak update,
\* streak validation, metrics) lead to a state where saver is unlocked.
C11_SaverUnlocks == SaverDue ~> SaverUnlocked

----------------------------------------------------------------------------
(* Budget status tiers *)

\* C21: for a positive budget b and spend s of the month, getBudgetStatus
\* gives red when 100*s/b >= 90, yellow when 70 <= 100*s/b < 90, green
\* otherwise, and remainingAmount = b - s.
C21_StatusTiers ==
    (lastCall.name = "getBudgetStatus" /\ ret # NoStatus)
    => LET b == ret.budgetAmount
           s == ret.spentAmount
           whole == (100 * s) \div b
       IN /\ b > 0
          /\ b = getBudgetForCategory(budgets, ret.category, today)
          /\ s = getCategorySpending(entries, ret.category,
                                     getFullYear(today), getMonth(today))
          /\ ret.status = IF whole >= 90 THEN "red"
                          ELSE IF whole >= 70 THEN "yellow" ELSE "green"
          /\ ret.remainingAmount = b - s

\* a spend of exactly 90 percent of the budget has been rated
C21_Witness ==
    /\ lastCall.name = "getBudgetStatus" /\ ret # NoStatus
    /\ ret.spentAmount * 10 = ret.budgetAmount * 9
    /\ ret.status = "red"

----------------------------------------------------------------------------
(* Trends *)

\* the least integer not below n / 2
CeilHalf(n) == (n + 1) \div 2

\* C22: getExpenseTrend(N) over the totals e[0..N-1] is rising when at least
\* ceil(N/2) of the N-1 adjacent pairs have e[i] > e[i+1], falling when at
\* least ceil(N/2) have e[i] < e[i+1], stable otherwise and for N < 2.
C22_TrendByCeilHalf ==
    lastCall.name = "getExpenseTrend"
    => LET e == ret.expenses
           n == lastCall.num
           down == Cardinality({i \in 1..(n - 1) : e[i] > e[i + 1]})
           up == Cardinality({i \in 1..(n - 1) : e[i] < e[i + 1]})
       IN /\ Len(e) = n
          /\ ret.trend = IF n < 2 THEN "stable"
                         ELSE IF down >= CeilHalf(n) THEN "rising"
                         ELSE IF up >= CeilHalf(n) THEN "falling"
                         ELSE "stable"

----------------------------------------------------------------------------
(* The forecast's historical window *)

\* C23: on every day of every month the window for monthsToAnalyze = k is
\* the k distinct calendar months immediately before the current month and
\* never holds the current month.
C23_WindowIsPriorMonths ==
    lastCall.name = "getHistoricalData"
    => LET now == 12 * ret.current.year + ret.current.month
       IN /\ Len(ret.window) = lastCall.num
          /\ \A i \in 1..Len(ret.window) :
               12 * ret.window[i].year + ret.window[i].month = now - i

----------------------------------------------------------------------------
(* Forecast *)

RECURSIVE WeightedSum(_, _)
\* sum of values[i] * (n - i) over the 0-based indices i, n = length + done
WeightedSum(values, n) ==
    IF values = << >> THEN 0
    ELSE Head(values) * Len(values) + WeightedSum(Tail(values), n)

WindowHasData ==
    \E i \in 1..lastCall.num :
        LET index == 12 * getFullYear(today) + getMonth(today) - i
            data == getMonthlyData(entries, index \div 12, index % 12)
        IN data.totalIncome > 0 \/ data.totalNeeds + data.totalWants > 0

\* C24: calculateWeightedAverage(values) is round(sum values[i]*(n-i) /
\* sum (n-i)), 0 for the empty list ([100] -> 100, [200,100] -> 167);
\* generateForecast has predictedSavings = predictedIncome -
\* predictedExpenses and is all zeros with confidence low and basedOnMonths
\* 0 when no month of the window has income or expense.
C24_WeightedAverageAndForecast ==
    /\ lastCall.name = "calculateWeightedAverage"
       => LET n == Len(arg)
              weights == (n * (n + 1)) \div 2
              v == ret.value
          IN /\ n = 0 => v = 0
             /\ n > 0 => /\ weights * (2 * v - 1) <= 2 * WeightedSum(arg, n)
                         /\ 2 * WeightedSum(arg, n) < weights * (2 * v + 1)
             /\ arg = <<100>> => v = 100
             /\ arg = <<200, 100>> => v = 167
    /\ lastCall.name = "generateForecast"
       => /\ ret.predictedSavings = ret.predictedIncome - ret.predictedExpenses
          /\ ~WindowHasData
             => ret = [predictedExpenses |-> 0, predictedSavings |-> 0,
                       predictedIncome |-> 0, confidence |-> "low",
                       basedOnMonths |-> 0]

\* the average of [200, 100] has been taken
C24_Witness ==
    /\ lastCall.name = "calculateWeightedAverage"
    /\ arg = <<200, 100>>
    /\ ret.value = 167

----------------------------------------------------------------------------
(* Category growth *)

\* the expenses of a category in the month `back` months before the clock's
SpentIn(category, back) ==
    LET index == 12 * getFullYear(today) + getMonth(today) - back
    IN sumAmounts(SelectSeq(entries, LAMBDA e :
           /\ e.type = "expense" /\ e.category = category
           /\ 12 * getFullYear(e.date) + getMonth(e.date) = index))

----------------------------------------------------------------------------
(* Financial score *)

\* C26: calculateFinancialScore returns four sub-scores in 0..100, score =
\* round(0.40*savings + 0.30*budget + 0.20*stability + 0.10*consistency), an
\* integer in 0..100, rating Excellent iff score >= 80, Good iff 60..79,
\* Average iff 40..59, Poor iff below 40; without budgets the budget
\* sub-score is 50.
C26_ScoreAndRating ==
    lastCall.name = "calculateFinancialScore"
    => LET b == ret.breakdown
           tenths == 4 * b.savingsScore + 3 * b.budgetScore
                     + 2 * b.stabilityScore + b.consistencyScore
       IN /\ {b.savingsScore, b.budgetScore, b.stabilityScore,
              b.consistencyScore} \subseteq 0..100
          /\ ret.score \in 0..100
          /\ 10 * (2 * ret.score - 1) <= 2 * tenths
          /\ 2 * tenths < 10 * (2 * ret.score + 1)
          /\ ret.rating = "Excellent" <=> ret.score >= 80
          /\ ret.rating = "Good" <=> (60 <= ret.score /\ ret.score < 80)
          /\ ret.rating = "Average" <=> (40 <= ret.score /\ ret.score < 60)
          /\ ret.rating = "Poor" <=> ret.score < 40
          /\ budgets = << >> => b.budgetScore = 50

\* a store without budgets and with a savings rate between 0 and 30 has
\* been scored
C26_Witness ==
    /\ lastCall.name = "calculateFinancialScore"
    /\ budgets = << >>
    /\ ret.breakdown.budgetScore = 50
    /\ ret.breakdown.savingsScore \in 1..99

----------------------------------------------------------------------------
(* Next-month prediction *)

\* totalNeeds + totalWants of the month `back` months before the clock's
ExpensesOf(back) ==
    LET index == 12 * getFullYear(today) + getMonth(today) - back
        data == getMonthlyData(entries, index \div 12, index % 12)
    IN data.totalNeeds + data.totalWants

\* the average of the two month-over-month changes over the three months
\* before the clock's, doubled
TwiceAverageChange ==
    (ExpensesOf(1) - ExpensesOf(2)) + (ExpensesOf(2) - ExpensesOf(3))

----------------------------------------------------------------------------
(* Insight properties *)

\* the place of an insight type in the priority order
TypeRank(type) ==
    IF type = "warning" THEN 0 ELSE IF type = "neutral" THEN 1 ELSE 2

\* C28: generateInsights returns at most 5 insights, and in the list it
\* returns no warning comes after a neutral or a positive and no neutral
\* comes after a positive
C28_InsightsInPriorityOrder ==
    lastCall.name = "generateInsights" =>
        /\ Len(ret) <= 5
        /\ \A i \in 1..Len(ret) : \A j \in i..Len(ret) :
               TypeRank(ret[i].type) <= TypeRank(ret[j].type)

----------------------------------------------------------------------------
(* Day count properties *)

\* the days on which an entry dated that day or the day before was recorded
QualifyingDays ==
    {entries[i].createdAt : i \in {j \in 1..Len(entries) :
        entries[j].date \in {entries[j].createdAt, entries[j].createdAt - 1}}}

\* C30: with entries recorded through the entry form, totalDaysWithEntries is
\* the number of distinct calendar days on which at least one entry dated
\* that day or the day before was recorded; a second such entry on the same
\* day does not increase it.
C30_TotalCountsDays ==
    streak.totalDaysWithEntries = Cardinality(QualifyingDays)

----------------------------------------------------------------------------
(* Streak achievement properties *)

\* the streak achievements and their thresholds
StreakThresholds ==
    [week_warrior |-> WeekWarriorDays,
     month_master |-> MonthMasterDays,
     consistent_tracker |-> ConsistentTrackerDays]

\* C29: through updateStreak and validateStreak from the initial records,
\* week_warrior is unlocked iff longestStreak >= 7, month_master iff
\* longestStreak >= 30 and consistent_tracker iff longestStreak >= 90, and
\* each of them is unlocked by the updateStreak call that brings
\* currentStreak to its threshold.
C29_UnlockedAtThreshold ==
    /\ [](\A id \in DOMAIN StreakThresholds :
             id \in Range(achievements)
             <=> streak.longestStreak >= StreakThresholds[id])
    /\ [][\A id \in DOMAIN StreakThresholds :
             (id \notin Range(achievements) /\ id \in Range(achievements'))
             <=> /\ lastCall'.name = "updateStreak"
                 /\ id \notin Range(achievements)
                 /\ streak.currentStreak < StreakThresholds[id]
                 /\ streak'.currentStreak = StreakThresholds[id]]_vars

\* the updateStreak call of the ninetieth consecutive day has just unlocked
\* consistent_tracker
C29_Witness ==
    /\ lastCall.name = "updateStreak"
    /\ streak.currentStreak = ConsistentTrackerDays
    /\ streak.longestStreak = ConsistentTrackerDays
    /\ {"week_warrior", "month_master", "consistent_tracker"}
           \subseteq Range(achievements)

====
